---- MODULE Spec2Model ----
(***************************************************************************)
(* YAPI MCP server (src/yapi): the tool dispatcher (mcp_server.ts), the    *)
(* backend client (yapiService.ts), the argument schemas (schemas.ts) and  *)
(* the multi-session streaming HTTP binding (transports/streamableHttp.ts) *)
(* and the SSE binding (transports/sse.ts).                                *)
(*                                                                         *)
(* Specifications over the same definitions:                               *)
(*   SpecDispatch  one call_tool invocation: validation, the backend round *)
(*                 trip, the mapping of every failure to a result;         *)
(*   Spec          the /mcp endpoint: the handler's case analysis, the     *)
(*                 routing table, the transports and their closing;        *)
(*   SpecDelivery  Spec and the sessions' tool calls through the one       *)
(*                 protocol engine all transports are connected to, up to  *)
(*                 the stream each response is written to;                 *)
(*   SpecBindings  Spec and the SSE binding's /sse and /messages endpoints,*)
(*                 for a process started with either binding;              *)
(*   SpecShutdown  sessions, client connections and the shutdown handler   *)
(*                 of SIGINT and SIGTERM, up to the exit of the process    *)
(*                 (SpecShutdownLive: with a fair event loop).             *)
(***************************************************************************)
EXTENDS Integers, Sequences, FiniteSets, TLC

VARIABLES
    \* ---- SpecDispatch: one invocation of the CallTool handler
    dPhase,            \* "idle" | "awaitBackend" | "done"
    dName,             \* request.params.name
    dArgs,             \* request.params.arguments
    dBackendRequests,  \* awaited service calls of this invocation, one fetch() each
    dResult,           \* the CallToolResult returned, NoResult before
    dEscaped,          \* an exception left the handler
    dBackend,          \* what the backend answered to this invocation's request
    dError,            \* the error the catch block received, NoError if none
    dRequest,          \* the URL the backend request was issued to, "" if none
    dPrev,             \* an earlier invocation of this process, with its outcome
    \* ---- Spec, SpecDelivery: the streaming HTTP binding
    activeTransports,  \* routing table: session id -> transport
    tState,            \* per transport: "none" | "created" | "connected" | "closed"
    tSid,              \* per transport: transport.sessionId, NoSid before initialization
    tStreams,          \* per transport: request ids with an open response stream
    engineTransport,   \* the protocol engine's current transport, 0 if none
    generated,         \* session ids handed out by sessionIdGenerator so far
    calls,             \* tool calls awaiting the backend
    delivered,         \* the response last written to a transport's stream
    lastReq,           \* the request handled by the last step of the /mcp handler
    lastRes,           \* and the answer the binding or the transport gave
    removals,          \* per transport: times onclose deleted its table entry
    closedSids,        \* session ids whose transport has reported its close
    \* ---- the binding the process was started with
    transportMode,     \* "streamable-http" (mcp_server.ts) | "sse" (index.ts)
    \* ---- the createMcpServer the process was built from
    callToolVariant,   \* "earlier" (mcp_server.ts:65) | "later" (mcp_server.ts:234)
    \* ---- the process: main()
    env,               \* process.env: YAPI_BASE_URL, YAPI_PROJECT_TOKEN
    procPhase,         \* "starting" | "running" | "exited"
    exitCode,          \* the argument of process.exit, 0 while the process lives
    startupError,      \* the error the YapiService constructor threw, NoError if none
    yapiService,       \* the backend client: baseUrl, apiBase, token
    mcpServerCreated,  \* createMcpServer has been called
    httpListening,     \* the HTTP listener of the binding has been started
    stdioConnected,    \* the stdio transport has been connected
    \* ---- the ListTools handler
    lastListing,       \* the tools the last tools/list request was answered with
    \* ---- mcp_server.ts: shutdown, the handler of SIGINT and SIGTERM
    shutdowns,         \* runs of shutdown awaiting the close of the HTTP server
    engineCloses,      \* calls of mcpServer.close() so far
    httpCloses,        \* calls of httpServer.close() so far
    httpConnections,   \* connections clients hold open on the HTTP server
    exitCause          \* the process.exit call that ended the process, "" before

dvars == <<dPhase, dName, dArgs, dBackendRequests, dResult, dEscaped,
           dBackend, dError, dRequest, dPrev>>
svars == <<activeTransports, tState, tSid, tStreams, engineTransport,
           generated, calls, delivered, lastReq, lastRes, removals, closedSids>>
\* what main() has set up, left alone once the process runs
cvars == <<transportMode, callToolVariant, env, startupError, yapiService,
           mcpServerCreated, httpListening, lastListing>>
hvars == <<shutdowns, engineCloses, httpCloses, httpConnections, exitCause>>
pvars == <<transportMode, callToolVariant, env, procPhase, exitCode, startupError,
           yapiService, mcpServerCreated, httpListening, stdioConnected,
           lastListing, hvars>>
vars == <<dvars, svars, pvars>>

----------------------------------------------------------------------------
(* Bounds of the model *)

\* integers offered as argument values range over -1 .. MaxArgInt, and the
\* default limit
MaxArgInt == 2
\* transports (sessions) the binding may create in one run
MaxSessions == 2
\* JSON-RPC request ids a client may use, 1 .. MaxReqId
MaxReqId == 2
\* length of the strings a details payload carries in res_body and
\* req_body_other
MaxBodyLen == 3
\* signals (SIGINT, SIGTERM) delivered to one process
MaxSignals == 2

(* Program constants *)
DefaultPage == 1
DefaultLimit == 10

----------------------------------------------------------------------------
(* JSON values offered as argument fields.  A record [k, n]: k is the JSON   *)
(* kind; n the integer for "int", and for "float" the value n + 1/2.         *)

Absent == [k |-> "absent", n |-> 0]

ArgValues ==
    {Absent, [k |-> "null", n |-> 0], [k |-> "str", n |-> 0]}
        \cup {[k |-> "int", n |-> i] : i \in (-1 .. MaxArgInt) \cup {DefaultLimit}}
        \cup {[k |-> "float", n |-> i] : i \in {-1, 1}}

NoArgs ==
    [obj |-> FALSE, interface_id |-> Absent, category_id |-> Absent,
     page |-> Absent, limit |-> Absent]

\* argument payloads: not an object at all, an object with interface_id set,
\* or an object with the fields of the category listing set
DetailsPayloads ==
    {NoArgs} \cup {[NoArgs EXCEPT !.obj = TRUE, !.interface_id = v] : v \in ArgValues}

ListPayloads ==
    {NoArgs}
        \cup {[NoArgs EXCEPT !.obj = TRUE, !.category_id = c, !.page = p, !.limit = l] :
                c \in ArgValues, p \in ArgValues, l \in ArgValues}

\* for the tools without arguments: nothing, {}, and an object with a stray key
\* (z.object strips unknown keys)
OtherPayloads ==
    {NoArgs, [NoArgs EXCEPT !.obj = TRUE],
     [NoArgs EXCEPT !.obj = TRUE, !.interface_id = [k |-> "int", n |-> 1]]}

\* payloads offered with a tool name; with a name that is no tool's, all
\* of them
PayloadsFor(name) ==
    CASE name = "yapi_get_interface_details" -> DetailsPayloads
      [] name = "yapi_list_interfaces_by_category" -> ListPayloads
      [] name \in {"yapi_get_project_interface_menu", "yapi_get_project_info"} ->
            OtherPayloads
      [] OTHER -> DetailsPayloads \cup ListPayloads \cup OtherPayloads

ToolNames ==
    {"yapi_get_interface_details", "yapi_list_interfaces_by_category",
     "yapi_get_project_interface_menu", "yapi_get_project_info"}

RequestedNames == ToolNames \cup {"yapi_delete_project"}

----------------------------------------------------------------------------
(* schemas.ts: argument schemas *)

\* z.number().int().positive(): every failed check adds an issue
NumberIssues(v) ==
    CASE v.k = "absent" -> <<"Required">>
      [] v.k = "null" -> <<"Expected number, received null">>
      [] v.k = "str" -> <<"Expected number, received string">>
      [] v.k = "int" -> IF v.n > 0 THEN <<>> ELSE <<"Number must be greater than 0">>
      [] v.k = "float" ->
            <<"Expected integer, received float">>
                \o (IF v.n >= 0 THEN <<>> ELSE <<"Number must be greater than 0">>)

\* z.number().int().positive().optional().default(d)
OptionalNumberIssues(v) ==
    IF v.k = "absent" THEN <<>> ELSE NumberIssues(v)

FieldIssues(path, msgs) ==
    [i \in 1 .. Len(msgs) |-> [path |-> path, message |-> msgs[i]]]

GetInterfaceDetailsArgsSchema(args) ==
    IF ~args.obj THEN <<[path |-> "", message |-> "Required"]>>
    ELSE FieldIssues("interface_id", NumberIssues(args.interface_id))

\* variant of ListInterfacesByCategoryArgsSchema that stops at the first
\* field with an issue
ListInterfacesByCategoryArgsSchemaFirstFieldOnly(args) ==
    IF ~args.obj THEN <<[path |-> "", message |-> "Required"]>>
    ELSE IF NumberIssues(args.category_id) # <<>>
         THEN FieldIssues("category_id", NumberIssues(args.category_id))
    ELSE IF OptionalNumberIssues(args.page) # <<>>
         THEN FieldIssues("page", OptionalNumberIssues(args.page))
    ELSE FieldIssues("limit", OptionalNumberIssues(args.limit))

ListInterfacesByCategoryArgsSchema(args) ==
    IF ~args.obj THEN <<[path |-> "", message |-> "Required"]>>
    ELSE FieldIssues("category_id", NumberIssues(args.category_id))
            \o FieldIssues("page", OptionalNumberIssues(args.page))
            \o FieldIssues("limit", OptionalNumberIssues(args.limit))

EmptyArgsSchema(args) ==
    IF ~args.obj THEN <<[path |-> "", message |-> "Required"]>> ELSE <<>>

\* the issues Schema.parse(args) throws as a ZodError, <<>> when it returns
SchemaIssues(name, args) ==
    CASE name = "yapi_get_interface_details" -> GetInterfaceDetailsArgsSchema(args)
      [] name = "yapi_list_interfaces_by_category" -> ListInterfacesByCategoryArgsSchema(args)
      [] OTHER -> EmptyArgsSchema(args)

\* variant of WithDefault for schemas whose defaults are all 1
WithDefaultOne(v, d) == IF v.k = "absent" THEN 1 ELSE v.n

\* .optional().default(d)
WithDefault(v, d) == IF v.k = "absent" THEN d ELSE v.n

\* the value Schema.parse(args) returns for a payload without issues
ParsedArgs(name, args) ==
    CASE name = "yapi_get_interface_details" ->
            [api |-> "/interface/get", id |-> args.interface_id.n, page |-> 0, limit |-> 0]
      [] name = "yapi_list_interfaces_by_category" ->
            [api |-> "/interface/list_cat", id |-> args.category_id.n,
             page |-> WithDefault(args.page, DefaultPage),
             limit |-> WithDefault(args.limit, DefaultLimit)]
      [] name = "yapi_get_project_interface_menu" ->
            [api |-> "/interface/list_menu", id |-> 0, page |-> 0, limit |-> 0]
      [] OTHER ->
            [api |-> "/project/get", id |-> 0, page |-> 0, limit |-> 0]

----------------------------------------------------------------------------
(* The members res_body and req_body_other of a details payload: a record    *)
(* [k, s], k the JSON kind, s the characters of a string, or the tokens of   *)
(* the value a string was parsed to.                                         *)

Chars == {"{", "}", "[", "]", " ", "x"}

BodyStrings == UNION {[1 .. n -> Chars] : n \in 0 .. MaxBodyLen}

Undefined == [k |-> "undefined", s |-> <<>>]
Null == [k |-> "null", s |-> <<>>]

\* z.string().optional().nullable()
BodyValues ==
    {Undefined, Null} \cup {[k |-> "string", s |-> s] : s \in BodyStrings}

RECURSIVE TrimStart(_)
TrimStart(s) == IF s # <<>> /\ Head(s) = " " THEN TrimStart(Tail(s)) ELSE s

RECURSIVE TrimEnd(_)
TrimEnd(s) ==
    IF s # <<>> /\ s[Len(s)] = " " THEN TrimEnd(SubSeq(s, 1, Len(s) - 1)) ELSE s

\* String.prototype.trim
Trim(s) == TrimEnd(TrimStart(s))

StartsWith(s, c) == s # <<>> /\ s[1] = c
EndsWith(s, c) == s # <<>> /\ s[Len(s)] = c

\* the tokens of a text: JSON.parse skips white space between tokens
Tokens(s) == SelectSeq(s, LAMBDA c : c # " ")

RECURSIVE IsJsonValue(_)
\* the token sequences JSON.parse accepts over Chars: {}, [], [value]
IsJsonValue(t) ==
    \/ t = <<"{", "}">>
    \/ /\ Len(t) >= 2 /\ t[1] = "[" /\ t[Len(t)] = "]"
       /\ (Len(t) = 2 \/ IsJsonValue(SubSeq(t, 2, Len(t) - 1)))

\* variant of tryParseJsonString that parses every string it is given and
\* yields null for the ones JSON.parse rejects
tryParseJsonStringAlways(v) ==
    IF v.k # "string" THEN v
    ELSE IF IsJsonValue(Tokens(v.s)) THEN [k |-> "json", s |-> Tokens(v.s)]
    ELSE Null

\* getInterfaceDetails: tryParseJsonString
tryParseJsonString(v) ==
    IF v.k # "string" \/ v.s = <<>> THEN v
    ELSE LET trimmed == Trim(v.s)
         IN  IF /\ \/ StartsWith(trimmed, "{") /\ EndsWith(trimmed, "}")
                   \/ StartsWith(trimmed, "[") /\ EndsWith(trimmed, "]")
                /\ IsJsonValue(Tokens(trimmed))
             THEN [k |-> "json", s |-> Tokens(trimmed)]
             ELSE v

----------------------------------------------------------------------------
(* The backend, as seen by one fetch(): what it answers.                    *)

Statuses == {200, 404, 500}

StatusOk(status) == status >= 200 /\ status <= 299

StatusText(status) ==
    CASE status = 200 -> "OK"
      [] status = 404 -> "Not Found"
      [] OTHER -> "Internal Server Error"

\* shape of the "data" member of the body, against the operation's schema:
\* "missingField" lacks one required member, "wrongType" has it with another
\* type, "twoFields" lacks it and has a second required member mistyped
DataShapes == {"ok", "missingField", "wrongType", "twoFields", "absent"}

NoBody == [errcodeKey |-> FALSE, errcode |-> 0, errmsg |-> "", data |-> "absent"]

Bodies ==
    {b \in [errcodeKey : BOOLEAN, errcode : {0, 40011},
            errmsg : {"", "token invalid"}, data : DataShapes] :
        ~b.errcodeKey => b.errcode = 0}

\* fault: an exception raised in the service method outside request()'s try,
\* an Error object or a thrown non-Error value
Faults == {"none", "Error", "value"}

\* what the raised exception says about the failure: error.message
FaultDetails == {"detail A", "detail B"}

\* before the backend has answered
NoBehaviour ==
    [fetch |-> "none", status |-> 0, ctype |-> "none", json |-> FALSE,
     body |-> NoBody, fault |-> "none", detail |-> "",
     res_body |-> Undefined, req_body_other |-> Undefined]

Behaviours ==
    {[fetch |-> "throws", status |-> 0, ctype |-> "none", json |-> FALSE,
      body |-> NoBody, fault |-> "none", detail |-> "",
      res_body |-> Undefined, req_body_other |-> Undefined]}
        \cup {[fetch |-> "ok", status |-> s, ctype |-> c, json |-> FALSE,
               body |-> NoBody, fault |-> "none", detail |-> "",
               res_body |-> Undefined, req_body_other |-> Undefined] :
                s \in Statuses, c \in {"json", "text", "none"}}
        \cup {[fetch |-> "ok", status |-> s, ctype |-> "json", json |-> TRUE,
               body |-> b, fault |-> "none", detail |-> "",
               res_body |-> Undefined, req_body_other |-> Undefined] :
                s \in Statuses, b \in Bodies}
        \cup {[fetch |-> "ok", status |-> 200, ctype |-> "json", json |-> TRUE,
               body |-> [errcodeKey |-> TRUE, errcode |-> 0, errmsg |-> "",
                         data |-> "ok"],
               fault |-> f, detail |-> d,
               res_body |-> Undefined, req_body_other |-> Undefined] :
                f \in Faults \ {"none"}, d \in FaultDetails}

----------------------------------------------------------------------------
(* errors.ts and yapiService.ts: the backend client *)

\* variant of YapiError whose constructor does not keep the HTTP status
YapiErrorWithoutStatus(message, errcodeDef, errcode, statusDef, status, responseBody) ==
    [cls |-> "YapiError", message |-> message,
     errcodeDef |-> errcodeDef, errcode |-> errcode,
     statusDef |-> FALSE, status |-> 0, issues |-> <<>>,
     responseBody |-> responseBody]

\* new YapiError(message, errcode?, status?, responseBody?); errcode/status 0
\* with the Def flag FALSE stand for undefined; responseBody is "text" (the
\* raw body), "data" (the parsed body), "zodErrors" (the report of the
\* response schema) or "none" (undefined)
YapiError(message, errcodeDef, errcode, statusDef, status, responseBody) ==
    [cls |-> "YapiError", message |-> message,
     errcodeDef |-> errcodeDef, errcode |-> errcode,
     statusDef |-> statusDef, status |-> status, issues |-> <<>>,
     responseBody |-> responseBody]

ZodError(issues) ==
    [cls |-> "ZodError", message |-> "", errcodeDef |-> FALSE, errcode |-> 0,
     statusDef |-> FALSE, status |-> 0, issues |-> issues, responseBody |-> "none"]

PlainError(cls) ==
    [cls |-> cls, message |-> "internal detail", errcodeDef |-> FALSE, errcode |-> 0,
     statusDef |-> FALSE, status |-> 0, issues |-> <<>>, responseBody |-> "none"]

\* no error was thrown
NoError == [PlainError("none") EXCEPT !.message = ""]

\* the member of "data" the operation's response schema requires
RequiredField(api) ==
    CASE api = "/interface/get" -> "data.title"
      [] api = "/interface/list_cat" -> "data.count"
      [] api = "/interface/list_menu" -> "data.0.name"
      [] OTHER -> "data.name"

\* a second member of "data" the operation's response schema requires, declared
\* after RequiredField(api)
SecondRequiredField(api) ==
    CASE api = "/interface/get" -> "data.path"
      [] api = "/interface/list_cat" -> "data.total"
      [] api = "/interface/list_menu" -> "data.0.uid"
      [] OTHER -> "data.uid"

\* the message of z.string() / z.number() for a member of the other type
TypeMessage(path) ==
    IF path \in {"data.title", "data.path", "data.0.name", "data.name"}
    THEN "Expected string, received number"
    ELSE "Expected number, received string"

\* variant of ResponseIssues for a schema check that aborts at the first issue
ResponseIssuesFirstOnly(api, body) ==
    IF ~body.errcodeKey THEN <<[path |-> "errcode", message |-> "Required"]>>
    ELSE CASE body.data = "ok" -> <<>>
           [] body.data = "absent" -> <<[path |-> "data", message |-> "Required"]>>
           [] body.data \in {"missingField", "twoFields"} ->
                 <<[path |-> RequiredField(api), message |-> "Required"]>>
           [] OTHER ->
                 <<[path |-> RequiredField(api),
                    message |-> TypeMessage(RequiredField(api))]>>

\* schema.safeParse(responseData).error.errors for the full response schema
ResponseIssues(api, body) ==
    (IF body.errcodeKey THEN <<>> ELSE <<[path |-> "errcode", message |-> "Required"]>>)
        \o (CASE body.data = "ok" -> <<>>
              [] body.data = "absent" -> <<[path |-> "data", message |-> "Required"]>>
              [] body.data = "missingField" ->
                    <<[path |-> RequiredField(api), message |-> "Required"]>>
              [] body.data = "twoFields" ->
                    <<[path |-> RequiredField(api), message |-> "Required"],
                      [path |-> SecondRequiredField(api),
                       message |-> TypeMessage(SecondRequiredField(api))]>>
              [] OTHER ->
                    <<[path |-> RequiredField(api),
                       message |-> TypeMessage(RequiredField(api))]>>)

RECURSIVE JoinIssues(_, _, _, _)
\* issues.map(e => pre + path + mid + message).join(sep)
JoinIssues(issues, pre, mid, sep) ==
    IF issues = <<>> THEN ""
    ELSE pre \o Head(issues).path \o mid \o Head(issues).message
            \o (IF Len(issues) = 1 THEN ""
                ELSE sep \o JoinIssues(Tail(issues), pre, mid, sep))

\* the "data" member the backend serves for a request.  The backend answers
\* as a function of the request: the payload repeats the request's
\* parameters, and a details payload carries the backend's res_body and
\* req_body_other
PayloadFor(pargs, beh) ==
    [api |-> pargs.api, id |-> pargs.id, page |-> pargs.page, limit |-> pargs.limit,
     res_body |-> IF pargs.api = "/interface/get" THEN beh.res_body ELSE Undefined,
     req_body_other |->
        IF pargs.api = "/interface/get" THEN beh.req_body_other ELSE Undefined]

NoPayload ==
    [api |-> "", id |-> 0, page |-> 0, limit |-> 0,
     res_body |-> Undefined, req_body_other |-> Undefined]

\* the parsed response: the envelope {errcode, errmsg, data}
ResponseFor(pargs, beh) ==
    [errcode |-> beh.body.errcode, errmsg |-> beh.body.errmsg,
     data |-> PayloadFor(pargs, beh)]

Threw(e) == [ok |-> FALSE, error |-> e, data |-> NoPayload]
Returned(d) == [ok |-> TRUE, error |-> PlainError("none"), data |-> d]

\* variant of Request that validates the response against the schema before
\* it looks at the business status
RequestValidatesFirst(pargs, beh) ==
    LET api == pargs.api IN
    IF beh.fetch = "throws" THEN
        Threw(YapiError("Network or fetch error during request to " \o api
                          \o ": fetch failed", FALSE, 0, FALSE, 0, "none"))
    ELSE IF beh.ctype # "json" \/ ~beh.json THEN
        Threw(YapiError("Failed to parse JSON response from YAPI. Status: "
                          \o ToString(beh.status) \o ". Response body fragment: text",
                        FALSE, 0, TRUE, beh.status, "text"))
    ELSE IF ~StatusOk(beh.status) THEN
        Threw(YapiError(IF beh.body.errmsg # "" THEN beh.body.errmsg
                        ELSE StatusText(beh.status),
                        beh.body.errcodeKey, beh.body.errcode, TRUE, beh.status, "data"))
    ELSE IF ResponseIssues(api, beh.body) # <<>> THEN
        Threw(YapiError("YAPI response validation failed for " \o api \o ". Details: "
                          \o JoinIssues(ResponseIssues(api, beh.body),
                                        "Path: ", ", Message: ", "; "),
                        FALSE, 0, TRUE, beh.status, "zodErrors"))
    ELSE IF beh.body.errcodeKey /\ beh.body.errcode # 0 THEN
        Threw(YapiError(IF beh.body.errmsg # "" THEN beh.body.errmsg
                        ELSE "YAPI operation failed with code "
                                \o ToString(beh.body.errcode),
                        TRUE, beh.body.errcode, TRUE, beh.status, "data"))
    ELSE Returned(ResponseFor(pargs, beh))

\* YapiService.request once fetch() has settled as beh says
Request(pargs, beh) ==
    LET api == pargs.api IN
    IF beh.fetch = "throws" THEN
        Threw(YapiError("Network or fetch error during request to " \o api
                          \o ": fetch failed", FALSE, 0, FALSE, 0, "none"))
    ELSE IF beh.ctype # "json" THEN
        IF ~StatusOk(beh.status) THEN
            Threw(YapiError("YAPI request failed with non-JSON response. Status: "
                              \o ToString(beh.status) \o ". Body: text",
                            FALSE, 0, TRUE, beh.status, "text"))
        ELSE
            Threw(YapiError("Received unexpected non-JSON response from YAPI for "
                              \o api \o ". Content-Type: " \o beh.ctype,
                            FALSE, 0, TRUE, beh.status, "text"))
    ELSE IF ~beh.json THEN
        Threw(YapiError("Failed to parse JSON response from YAPI. Status: "
                          \o ToString(beh.status) \o ". Response body fragment: text",
                        FALSE, 0, TRUE, beh.status, "text"))
    ELSE IF ~StatusOk(beh.status) THEN
        Threw(YapiError(IF beh.body.errmsg # "" THEN beh.body.errmsg
                        ELSE StatusText(beh.status),
                        beh.body.errcodeKey, beh.body.errcode, TRUE, beh.status, "data"))
    ELSE IF beh.body.errcodeKey /\ beh.body.errcode # 0 THEN
        Threw(YapiError(IF beh.body.errmsg # "" THEN beh.body.errmsg
                        ELSE "YAPI operation failed with code "
                                \o ToString(beh.body.errcode),
                        TRUE, beh.body.errcode, TRUE, beh.status, "data"))
    ELSE IF ResponseIssues(api, beh.body) # <<>> THEN
        Threw(YapiError("YAPI response validation failed for " \o api \o ". Details: "
                          \o JoinIssues(ResponseIssues(api, beh.body),
                                        "Path: ", ", Message: ", "; "),
                        FALSE, 0, TRUE, beh.status, "zodErrors"))
    ELSE Returned(ResponseFor(pargs, beh))

\* listInterfacesByCategory(categoryId, page = 1, limit = 10): a parameter
\* that is undefined (0 here) takes its default
ServiceParams(pargs) ==
    IF pargs.api = "/interface/list_cat"
    THEN [pargs EXCEPT !.page = IF @ = 0 THEN DefaultPage ELSE @,
                       !.limit = IF @ = 0 THEN DefaultLimit ELSE @]
    ELSE pargs

\* request(): the URL of the GET request, the token first and then the
\* parameters in the order the service method lists them
RequestUrl(service, pargs) ==
    service.apiBase \o pargs.api \o "?token=" \o service.token
        \o (CASE pargs.api = "/interface/get" -> "&id=" \o ToString(pargs.id)
              [] pargs.api = "/interface/list_cat" ->
                    "&catid=" \o ToString(pargs.id) \o "&page=" \o ToString(pargs.page)
                        \o "&limit=" \o ToString(pargs.limit)
              [] OTHER -> "")

\* variant of ServiceCall whose methods return the whole response
ServiceCallReturnsResponse(pargs, beh) ==
    IF beh.fault = "Error" THEN Threw([PlainError("Error") EXCEPT !.message = beh.detail])
    ELSE IF beh.fault = "value" THEN Threw([PlainError("value") EXCEPT !.message = beh.detail])
    ELSE Request(ServiceParams(pargs), beh)

\* getInterfaceDetails / listInterfacesByCategory / getProjectInterfaceMenu /
\* getProjectInfo: request(), then the unwrapping of response.data;
\* getInterfaceDetails passes res_body and req_body_other through
\* tryParseJsonString
ServiceCall(pargs, beh) ==
    IF beh.fault = "Error" THEN Threw([PlainError("Error") EXCEPT !.message = beh.detail])
    ELSE IF beh.fault = "value" THEN Threw([PlainError("value") EXCEPT !.message = beh.detail])
    ELSE LET r == Request(ServiceParams(pargs), beh)
         IN  IF ~r.ok THEN r
             ELSE IF pargs.api = "/interface/get"
             THEN Returned([r.data.data EXCEPT
                                !.res_body = tryParseJsonString(@),
                                !.req_body_other = tryParseJsonString(@)])
             ELSE Returned(r.data.data)

----------------------------------------------------------------------------
(* mcp_server.ts: the CallTool request handler *)

NoResult == [isError |-> FALSE, code |-> 0, text |-> "(none)"]

ErrorCode(e) ==
    CASE e.cls = "ZodError" -> -32602
      [] e.cls = "YapiError" ->
            IF e.statusDef /\ e.status = 404 THEN -32002
            ELSE IF (e.statusDef /\ e.status \in {401, 403})
                        \/ (e.errcodeDef /\ e.errcode = 40011) THEN -32001
            ELSE -32000
      [] e.cls = "ConfigurationError" -> -32003
      [] OTHER -> -32000

\* variant of ErrorMessage that leaves the backend's code and the HTTP status
\* out of the message of a YapiError
ErrorMessageWithoutCodes(name, e) ==
    CASE e.cls = "ZodError" ->
            "Invalid arguments for tool " \o name \o ": "
                \o JoinIssues(e.issues, "", ": ", ", ")
      [] e.cls = "YapiError" -> "YAPI API Error for tool " \o name \o ": " \o e.message
      [] e.cls = "ConfigurationError" ->
            "Configuration Error for tool " \o name \o ": " \o e.message
      [] e.cls = "Error" ->
            "Internal server error executing tool " \o name
                \o ". See server logs for details."
      [] OTHER -> "An unknown error occurred while processing tool " \o name \o "."

\* the catch block's errorMessage in the earlier createMcpServer
ErrorMessageEarlier(name, e) ==
    CASE e.cls = "ZodError" ->
            "Invalid arguments for tool " \o name \o ": "
                \o JoinIssues(e.issues, "", ": ", ", ")
      [] e.cls = "YapiError" ->
            "YAPI API Error for tool " \o name \o ": " \o e.message
                \o (IF e.errcodeDef /\ e.errcode # 0
                    THEN " (Code: " \o ToString(e.errcode) \o ")" ELSE "")
                \o (IF e.statusDef /\ e.status # 0
                    THEN " (HTTP Status: " \o ToString(e.status) \o ")" ELSE "")
      [] e.cls = "ConfigurationError" ->
            "Configuration Error for tool " \o name \o ": " \o e.message
      [] e.cls = "Error" ->
            "Internal server error for tool " \o name \o ": " \o e.message
      [] OTHER -> "An unknown error occurred while processing tool " \o name \o "."

\* the catch block's errorMessage in the later createMcpServer
ErrorMessageLater(name, e) ==
    CASE e.cls = "ZodError" ->
            "Invalid arguments for tool " \o name \o ": "
                \o JoinIssues(e.issues, "", ": ", ", ")
      [] e.cls = "YapiError" ->
            "YAPI API Error for tool " \o name \o ": " \o e.message
                \o (IF e.errcodeDef /\ e.errcode # 0
                    THEN " (YAPI Code: " \o ToString(e.errcode) \o ")" ELSE "")
                \o (IF e.statusDef /\ e.status # 0
                    THEN " (HTTP Status: " \o ToString(e.status) \o ")" ELSE "")
      [] e.cls = "ConfigurationError" ->
            "Configuration Error for tool " \o name \o ": " \o e.message
      [] e.cls = "Error" ->
            "Internal server error executing tool " \o name
                \o ". See server logs for details."
      [] OTHER -> "An unknown error occurred while processing tool " \o name \o "."

\* the catch block's errorMessage, by the class of the error
ErrorMessage(name, e) ==
    IF callToolVariant = "earlier" THEN ErrorMessageEarlier(name, e)
    ELSE ErrorMessageLater(name, e)

\* the catch block: every error becomes an error-flavoured result; only the
\* later createMcpServer adds errorData with a code
CatchResult(name, e) ==
    [isError |-> TRUE,
     code |-> IF callToolVariant = "earlier" THEN 0 ELSE ErrorCode(e),
     text |-> ErrorMessage(name, e)]

\* variant of UnknownToolResult for a switch without a default branch: data
\* stays undefined and the success result is returned
UnknownToolResultNoDefault(name) ==
    [isError |-> FALSE, code |-> 0, text |-> "undefined"]

\* default: the result returned for a name that is no tool's
UnknownToolResult(name) ==
    [isError |-> TRUE, code |-> 0, text |-> "Error: Unknown tool name '" \o name \o "'"]

RECURSIVE Indent(_)
Indent(n) == IF n = 0 THEN "" ELSE "  " \o Indent(n - 1)

RECURSIVE Text(_)
\* the characters of a string, as text
Text(s) == IF s = <<>> THEN "" ELSE Head(s) \o Text(Tail(s))

RECURSIVE JoinLines(_, _)
\* the members of an object or array, one per line at indentation n
JoinLines(members, n) ==
    IF members = <<>> THEN ""
    ELSE Indent(n) \o Head(members)
            \o (IF Len(members) = 1 THEN "" ELSE ",\n" \o JoinLines(Tail(members), n))

StringifyObject(members, n) ==
    IF members = <<>> THEN "{}"
    ELSE "{\n" \o JoinLines(members, n + 1) \o "\n" \o Indent(n) \o "}"

StringifyArray(members, n) ==
    IF members = <<>> THEN "[]"
    ELSE "[\n" \o JoinLines(members, n + 1) \o "\n" \o Indent(n) \o "]"

RECURSIVE StringifyTokens(_, _)
\* a parsed value {}, [] or [value]
StringifyTokens(t, n) ==
    IF t = <<"{", "}">> THEN "{}"
    ELSE IF Len(t) = 2 THEN "[]"
    ELSE StringifyArray(<<StringifyTokens(SubSeq(t, 2, Len(t) - 1), n + 1)>>, n)

\* a member "key": value; a member whose value is undefined is left out
StringifyMember(key, v, n) ==
    CASE v.k = "undefined" -> <<>>
      [] v.k = "null" -> <<"\"" \o key \o "\": null">>
      [] v.k = "string" -> <<"\"" \o key \o "\": \"" \o Text(v.s) \o "\"">>
      [] OTHER -> <<"\"" \o key \o "\": " \o StringifyTokens(v.s, n)>>

NumberMember(key, i) == "\"" \o key \o "\": " \o ToString(i)

\* JSON.stringify(payload, null, 2) at indentation n, members in the order
\* of the response schema
StringifyPayload(d, n) ==
    CASE d.api = "/interface/get" ->
            StringifyObject(<<NumberMember("_id", d.id)>>
                                \o StringifyMember("req_body_other", d.req_body_other, n + 1)
                                \o StringifyMember("res_body", d.res_body, n + 1), n)
      [] d.api = "/interface/list_cat" ->
            StringifyObject(
                <<NumberMember("count", d.limit), NumberMember("total", d.limit),
                  "\"list\": " \o StringifyArray(
                        <<StringifyObject(<<NumberMember("_id", d.page),
                                            NumberMember("catid", d.id)>>, n + 2)>>,
                        n + 1)>>, n)
      [] d.api = "/interface/list_menu" -> "[]"
      [] OTHER -> StringifyObject(<<NumberMember("_id", 1)>>, n)

\* JSON.stringify(data, null, 2) of what the service method returned: a
\* payload, or a response with its envelope
Stringify(data) ==
    IF "errcode" \in DOMAIN data
    THEN StringifyObject(<<NumberMember("errcode", data.errcode),
                           "\"errmsg\": \"" \o data.errmsg \o "\"",
                           "\"data\": " \o StringifyPayload(data.data, 1)>>, 0)
    ELSE StringifyPayload(data, 0)

\* variant of SuccessResult for a handler that marks every answer after the
\* first one it has kept
SuccessResultMarksRepeats(data) ==
    [isError |-> FALSE, code |-> 0,
     text |-> Stringify(data) \o (IF dPrev.name = "" THEN "" ELSE " (repeated)")]

\* the result returned when the service call has returned data
SuccessResult(data) ==
    [isError |-> FALSE, code |-> 0, text |-> Stringify(data)]

\* variant of CallsService for a switch that calls the service without
\* parsing the arguments first
CallsServiceUnvalidated(name, args) ==
    name \in ToolNames

\* the switch up to the first await: TRUE when the handler goes on to call the
\* service (known tool, arguments parsed)
CallsService(name, args) ==
    name \in ToolNames /\ SchemaIssues(name, args) = <<>>

\* the result of an invocation that ends before any service call
EarlyResult(name, args) ==
    IF name \notin ToolNames THEN UnknownToolResult(name)
    ELSE CatchResult(name, ZodError(SchemaIssues(name, args)))

\* the result once the awaited service call has settled
LateResult(name, args, beh) ==
    LET r == ServiceCall(ParsedArgs(name, args), beh)
    IN  IF r.ok THEN SuccessResult(r.data) ELSE CatchResult(name, r.error)

\* the classes of error the catch block's if-chain distinguishes; "value" is
\* a thrown value that is no Error, taken by the final else
ErrorClasses == {"ZodError", "YapiError", "ConfigurationError", "Error", "value"}

\* variant of Caught for a catch block whose if-chain ends without an else
CaughtErrorObjectsOnly(e) ==
    e.cls \in {"ZodError", "YapiError", "ConfigurationError", "Error"}

\* catch (error) { ... }: the errors the catch block turns into a result
Caught(e) == e.cls \in ErrorClasses

----------------------------------------------------------------------------
(* Initial state of the binding: runStreamableHttpServer has returned       *)

NoSid == ""
Transports == 1 .. MaxSessions
ReqIds == 1 .. MaxReqId

\* values of randomUUID(), in the order they are drawn
UuidNames == <<"uuid-1", "uuid-2", "uuid-3", "uuid-4", "uuid-5", "uuid-6">>
SessionIds == {UuidNames[i] : i \in 1 .. MaxSessions}

\* names every JavaScript object inherits from Object.prototype
ObjectPrototypeKeys == {"constructor"}

\* Mcp-Session-Id header values a client may send: none, an identifier the
\* server has issued or may yet issue, a name every object inherits
HeaderSids == {NoSid} \cup SessionIds \cup ObjectPrototypeKeys

\* the body of a POST as the handler tells it apart: an initialize request
\* (isInitializeRequest), any other single message, or an array of messages
Bodies4Post == {"initialize", "other", "batch"}

\* a request, with what held of its session id when it arrived: known, an own
\* key of the routing table; closed, the id of a session already closed
NoReq == [method |-> "", sid |-> NoSid, body |-> "", known |-> FALSE, closed |-> FALSE]

\* a response written to the stream of request id on transport "on", for the
\* request id received on transport "origin"
NoDelivery == [on |-> 0, origin |-> 0, id |-> 0]

\* an answer: who wrote it (the binding's own res.status().json(), or the
\* transport), the HTTP status, the JSON-RPC error code and message, the
\* Mcp-Session-Id response header, and the transport whose handleRequest was
\* called for the request (0 when none was); the id member of the JSON-RPC
\* error body (NullId for null); how many times the head of the response was
\* written (res.headersSent is writes > 0); and who ended the response
\* (res.writableEnded), "" while it is open: the binding, or the transport,
\* which ends what it answers or keeps it as its stream
NullId == 0
NoRes == [by |-> "", status |-> 0, code |-> 0, message |-> "",
          sidHeader |-> NoSid, transport |-> 0, id |-> NullId, writes |-> 0,
          endedBy |-> ""]

\* the process is up and serves the binding of that mode
\* httpServer.close() has been called: the listener takes no new connection
HttpClosing == httpCloses > 0

\* the process is up and serves the binding of that mode; once the listener
\* is closed, requests arrive only on the connections still open
Serving(mode) ==
    /\ procPhase = "running"
    /\ transportMode = mode
    /\ HttpClosing => httpConnections > 0

SInit ==
    /\ activeTransports = [s \in {} |-> 0]
    /\ tState = [t \in Transports |-> "none"]
    /\ tSid = [t \in Transports |-> NoSid]
    /\ tStreams = [t \in Transports |-> {}]
    /\ engineTransport = 0
    /\ generated = {}
    /\ calls = {}
    /\ delivered = NoDelivery
    /\ lastReq = NoReq
    /\ lastRes = NoRes
    /\ removals = [t \in Transports |-> 0]
    /\ closedSids = {}

----------------------------------------------------------------------------
(* transports/streamableHttp.ts: the /mcp handler *)

\* variant of Lookup that returns the transport of some key of the table,
\* whatever the key asked for
LookupAnyEntry(table, sid) ==
    IF sid \in DOMAIN table
    THEN table[CHOOSE s \in DOMAIN table : \A u \in DOMAIN table : table[s] <= table[u]]
    ELSE 0

\* activeTransports[sessionId] on a plain object ({}): an own key gives the
\* stored transport, a name inherited from Object.prototype gives that member
\* (-1, an object that is no transport), any other key undefined (0)
Lookup(table, sid) ==
    IF sid \in DOMAIN table THEN table[sid]
    ELSE IF sid \in ObjectPrototypeKeys THEN -1
    ELSE 0

Truthy(x) == x # 0

\* the if / else-if chain of the handler; isInitializeRequest(req.body) is
\* body = "initialize"
Branch(table, method, sid, body) ==
    IF sid # NoSid /\ Truthy(Lookup(table, sid)) THEN "reuse"
    ELSE IF sid = NoSid /\ method = "POST" /\ body = "initialize" THEN "initialize"
    ELSE IF sid = NoSid /\ method # "POST" THEN "400-header-required"
    ELSE IF sid # NoSid /\ ~Truthy(Lookup(table, sid)) THEN "404"
    ELSE "400-invalid"

\* requests on /mcp: a POST carries a message, GET and DELETE carry none
HttpRequests ==
    {[method |-> "POST", sid |-> s, body |-> b] : s \in HeaderSids, b \in Bodies4Post}
        \cup {[method |-> m, sid |-> s, body |-> ""] :
                m \in {"GET", "DELETE"}, s \in HeaderSids}

Arrived(method, sid, body) ==
    [method |-> method, sid |-> sid, body |-> body,
     known |-> sid \in DOMAIN activeTransports,
     closed |-> sid \in closedSids]

\* res.status(status).json({jsonrpc, error: {code, message}, id})
BindingAnswer(status, code, message) ==
    [by |-> "binding", status |-> status, code |-> code, message |-> message,
     sidHeader |-> NoSid, transport |-> 0, id |-> NullId, writes |-> 1,
     endedBy |-> "binding"]

\* an answer written by transport.handleRequest of transport t
TransportAnswer(t, status, sidHeader) ==
    [by |-> "transport", status |-> status, code |-> 0, message |-> "",
     sidHeader |-> sidHeader, transport |-> t, id |-> NullId, writes |-> 1,
     endedBy |-> "transport"]

\* the response as transport.handleRequest of transport t left it when it
\* threw after it had written the head of its answer
TransportStarted(t, status, sidHeader) ==
    [TransportAnswer(t, status, sidHeader) EXCEPT !.endedBy = ""]

\* the response of a request nothing was written to yet; t is the transport
\* whose handleRequest was called, 0 when none was
NotStarted(t) == [NoRes EXCEPT !.transport = t]

\* res.headersSent
HeadersSent(res) == res.writes > 0

\* the id of the single message a POST carries: 1 for the initialize
\* request, 2 for any other message
MessageId(body) == IF body = "initialize" THEN 1 ELSE 2

\* variant of CatchReqId that never looks at the body
CatchReqIdAlwaysNull(method, body) == NullId

\* lines 110-113: reqId is the id of the body of a POST that is an object and
\* no array, null otherwise
CatchReqId(method, body) ==
    IF method = "POST" /\ body \in {"initialize", "other"}
    THEN MessageId(body)
    ELSE NullId

\* res.status(500).json(...) of line 114; t is the transport whose
\* handleRequest threw, 0 when the exception came from elsewhere
CatchAnswer(t) ==
    [by |-> "binding", status |-> 500, code |-> -32603,
     message |-> "Internal Server Error", sidHeader |-> NoSid, transport |-> t,
     id |-> NullId, writes |-> 1, endedBy |-> "binding"]

\* variant of Catch that writes its answer without asking whether the head of
\* one was sent already
CatchAnswersAlways(res, method, body) ==
    [CatchAnswer(res.transport) EXCEPT !.id = CatchReqId(method, body),
                                       !.writes = res.writes + 1]

\* the catch block, lines 106-118, entered with the response res of a
\* request of that method and body: 500 when no head was sent, otherwise the
\* response is ended unless it is ended already
Catch(res, method, body) ==
    IF ~HeadersSent(res)
    THEN [CatchAnswer(res.transport) EXCEPT !.id = CatchReqId(method, body),
                                            !.writes = res.writes + 1]
    ELSE IF res.endedBy = "" THEN [res EXCEPT !.endedBy = "binding"]
    ELSE res

\* variant of RejectAnswer for a chain without its final else: the request
\* falls through to transport.handleRequest on an unassigned transport
RejectAnswerNoFinalElse(branch) ==
    CASE branch = "400-header-required" ->
            BindingAnswer(400, -32000,
                "Bad Request: Mcp-Session-Id header required for this request.")
      [] branch = "404" ->
            BindingAnswer(404, -32000, "Not Found: Invalid or expired session ID.")
      [] OTHER -> Catch(NotStarted(0), "POST", "other")

\* the three rejecting branches
RejectAnswer(branch) ==
    CASE branch = "400-header-required" ->
            BindingAnswer(400, -32000,
                "Bad Request: Mcp-Session-Id header required for this request.")
      [] branch = "404" ->
            BindingAnswer(404, -32000, "Not Found: Invalid or expired session ID.")
      [] OTHER ->
            BindingAnswer(400, -32000, "Bad Request: Invalid request combination.")

\* variant of OnSessionInitialized that stores nothing
OnSessionInitializedStoresNothing(table, sid, t) == table

\* onsessioninitialized: activeTransports[newSessionId] = transport
OnSessionInitialized(table, sid, t) ==
    [s \in DOMAIN table \cup {sid} |-> IF s = sid THEN t ELSE table[s]]

\* variant of OnCloseDeletes for an onclose that never deletes
OnCloseNeverDeletes(table, sid) == FALSE

\* transport.onclose: the test that guards the delete
OnCloseDeletes(table, sid) == sid # NoSid /\ Truthy(Lookup(table, sid))

\* variant of OnClose that empties the routing table
OnCloseClearsTable(table, sid) == [s \in {} |-> 0]

\* transport.onclose: the routing table afterwards
OnClose(table, sid) ==
    IF OnCloseDeletes(table, sid)
    THEN [s \in DOMAIN table \ {sid} |-> table[s]]
    ELSE table

\* variant of CloseTransport whose onclose leaves the routing table alone
CloseTransportKeepsEntry(t) ==
    /\ tState' = [tState EXCEPT ![t] = "closed"]
    /\ tStreams' = [tStreams EXCEPT ![t] = {}]
    /\ closedSids' = closedSids \cup ({tSid[t]} \ {NoSid})
    /\ engineTransport' = 0
    /\ UNCHANGED <<activeTransports, removals>>

\* transport.close(): its streams end, the transport's onclose runs, and the
\* engine, whose own close handler mcpServer.connect chained to it, drops
\* the transport it holds
CloseTransport(t) ==
    /\ tState' = [tState EXCEPT ![t] = "closed"]
    /\ tStreams' = [tStreams EXCEPT ![t] = {}]
    /\ activeTransports' = OnClose(activeTransports, tSid[t])
    /\ removals' = [removals EXCEPT ![t] =
                        IF OnCloseDeletes(activeTransports, tSid[t]) THEN @ + 1 ELSE @]
    /\ closedSids' = closedSids \cup ({tSid[t]} \ {NoSid})
    /\ engineTransport' = 0

\* a request the chain answers itself: 400 or 404
Reject(method, sid, body) ==
    /\ Serving("streamable-http")
    /\ Branch(activeTransports, method, sid, body)
            \in {"400-header-required", "404", "400-invalid"}
    /\ lastReq' = Arrived(method, sid, body)
    /\ lastRes' = RejectAnswer(Branch(activeTransports, method, sid, body))
    /\ UNCHANGED <<activeTransports, tState, tSid, tStreams, engineTransport,
                   generated, calls, delivered, removals, closedSids>>
    /\ UNCHANGED <<dvars, pvars>>

\* the reuse branch taken for an inherited name: transport.handleRequest is
\* not a function, the TypeError lands in the catch block
ReuseInherited(method, sid, body) ==
    /\ Serving("streamable-http")
    /\ Branch(activeTransports, method, sid, body) = "reuse"
    /\ Lookup(activeTransports, sid) = -1
    /\ lastReq' = Arrived(method, sid, body)
    /\ lastRes' = Catch(NotStarted(0), method, body)
    /\ UNCHANGED <<activeTransports, tState, tSid, tStreams, engineTransport,
                   generated, calls, delivered, removals, closedSids>>
    /\ UNCHANGED <<dvars, pvars>>

\* variant of NewSessionId for a generator that returns one fixed value
NewSessionIdConstant == UuidNames[1]

\* sessionIdGenerator: randomUUID(), a value not drawn before
NewSessionId == UuidNames[Cardinality(generated) + 1]

\* how the new-session branch may run: mcpServer.connect throws; the
\* transport initializes the session and answers; the transport refuses the
\* request with an answer of its own (406 for an Accept header it does not
\* take) and initializes nothing; handleRequest throws before / after the
\* session id is assigned
InitOutcomes ==
    {"connectThrows", "ok", "refused", "throwsBefore", "throwsAfter",
     "throwsAfterHeaders"}

\* the outcomes in which the transport assigns the session its identifier
AssignsSessionId(oc) == oc \in {"ok", "throwsAfter", "throwsAfterHeaders"}

\* new-session branch, lines 57-85, from the construction of the transport
\* to the return: both awaits settle within the turn of the event loop that
\* runs the handler (the body is parsed already), so no other handler runs in
\* between. mcpServer.connect makes the new transport the engine's transport
\* before it starts it.
Initialize(oc) ==
    /\ Serving("streamable-http")
    /\ Branch(activeTransports, "POST", NoSid, "initialize") = "initialize"
    /\ \E t \in Transports :
        /\ tState[t] = "none"
        /\ \A u \in Transports : u < t => tState[u] # "none"
        /\ lastReq' = Arrived("POST", NoSid, "initialize")
        /\ tState' = [tState EXCEPT ![t] =
                        IF oc = "connectThrows" THEN "created" ELSE "connected"]
        /\ engineTransport' = t
        /\ IF AssignsSessionId(oc)
           THEN /\ tSid' = [tSid EXCEPT ![t] = NewSessionId]
                /\ generated' = generated \cup {NewSessionId}
                /\ activeTransports' =
                        OnSessionInitialized(activeTransports, NewSessionId, t)
           ELSE UNCHANGED <<tSid, generated, activeTransports>>
        /\ lastRes' =
            CASE oc = "ok" -> TransportAnswer(t, 200, NewSessionId)
              [] oc = "refused" -> TransportAnswer(t, 406, NoSid)
              [] oc = "connectThrows" ->
                    Catch(NotStarted(0), "POST", "initialize")
              [] oc = "throwsAfterHeaders" ->
                    Catch(TransportStarted(t, 200, NewSessionId),
                          "POST", "initialize")
              [] OTHER -> Catch(NotStarted(t), "POST", "initialize")
    /\ UNCHANGED <<tStreams, calls, delivered, removals, closedSids>>
    /\ UNCHANGED <<dvars, pvars>>

\* reuse branch, DELETE: the stored transport closes itself and answers
RoutedDelete(sid) ==
    /\ Serving("streamable-http")
    /\ Branch(activeTransports, "DELETE", sid, "") = "reuse"
    /\ Lookup(activeTransports, sid) \in Transports
    /\ lastReq' = Arrived("DELETE", sid, "")
    /\ lastRes' = TransportAnswer(Lookup(activeTransports, sid), 200, NoSid)
    /\ CloseTransport(Lookup(activeTransports, sid))
    /\ UNCHANGED <<tSid, generated, calls, delivered>>
    /\ UNCHANGED <<dvars, pvars>>

\* how handleRequest of a stored transport may end: it answers, it throws
\* before it wrote anything, or it throws after it wrote the head of its
\* answer
RouteOutcomes == {"ok", "throws", "throwsAfterHeaders"}

\* reuse branch, GET or POST: the stored transport handles the request and
\* answers it (oc = "ok") or throws into the catch block
RoutedOther(method, sid, body, oc) ==
    /\ Serving("streamable-http")
    /\ method # "DELETE"
    /\ Branch(activeTransports, method, sid, body) = "reuse"
    /\ Lookup(activeTransports, sid) \in Transports
    /\ lastReq' = Arrived(method, sid, body)
    /\ lastRes' =
        LET t == Lookup(activeTransports, sid)
            status == CASE method = "GET" -> 200
                        [] body = "initialize" -> 400
                        [] OTHER -> 202
        IN  CASE oc = "throws" -> Catch(NotStarted(t), method, body)
              [] oc = "throwsAfterHeaders" ->
                    Catch(TransportStarted(t, status, NoSid), method, body)
              [] OTHER -> TransportAnswer(t, status, NoSid)
    /\ UNCHANGED <<activeTransports, tState, tSid, tStreams, engineTransport,
                   generated, calls, delivered, removals, closedSids>>
    /\ UNCHANGED <<dvars, pvars>>

\* the transport of an initialized session reports its close for a reason
\* other than DELETE (a transport error, a disconnect, a repeated close)
TransportCloses(t) ==
    /\ Serving("streamable-http")
    /\ tSid[t] # NoSid
    /\ CloseTransport(t)
    /\ UNCHANGED <<tSid, generated, calls, delivered, lastReq, lastRes>>
    /\ UNCHANGED <<dvars, pvars>>

\* process.exit(code)
Exit(code, cause) ==
    /\ procPhase' = "exited"
    /\ exitCode' = code
    /\ exitCause' = cause

\* how mcpServer.close() may end: it resolves, or closing the transport the
\* engine holds throws
ShutdownOutcomes == {"ok", "closeThrows"}

\* mcp_server.ts shutdown, the handler of SIGINT and of SIGTERM, from its
\* entry to the await of the HTTP server's close or to process.exit: the
\* awaits before that settle without leaving the turn of the event loop.
\* mcpServer.close() closes the transport the engine holds, if any; when it
\* throws, the catch block exits with 1. With an HTTP server the 5-second
\* timer is set and httpServer.close(callback) called; without one (stdio)
\* the process exits with 0. No flag records that a shutdown is in progress:
\* every signal runs the handler again, as long as the process lives (a
\* server with no connection left closes before the next signal is handled).
Shutdown(oc) ==
    /\ procPhase = "running"
    /\ transportMode \in {"streamable-http", "stdio"}
    /\ HttpClosing => httpConnections > 0
    /\ engineCloses < MaxSignals
    /\ engineCloses' = engineCloses + 1
    /\ IF oc = "closeThrows"
       THEN /\ engineTransport \in Transports \/ stdioConnected
            /\ Exit(1, "shutdown error")
            /\ UNCHANGED <<tState, tStreams, activeTransports, removals,
                           closedSids, engineTransport, stdioConnected,
                           shutdowns, httpCloses>>
       ELSE /\ IF engineTransport \in Transports
               THEN CloseTransport(engineTransport)
               ELSE UNCHANGED <<tState, tStreams, activeTransports, removals,
                                closedSids, engineTransport>>
            /\ stdioConnected' = FALSE
            /\ IF httpListening
               THEN /\ httpCloses' = httpCloses + 1
                    /\ shutdowns' = shutdowns + 1
                    /\ UNCHANGED <<procPhase, exitCode, exitCause>>
               ELSE /\ Exit(0, "complete")
                    /\ UNCHANGED <<shutdowns, httpCloses>>
    /\ UNCHANGED <<tSid, generated, calls, delivered, lastReq, lastRes>>
    /\ UNCHANGED <<dvars, cvars, httpConnections>>

\* variant of ShutdownTimeout whose timer only logs: the wait goes on
ShutdownTimeoutOnlyLogs ==
    /\ procPhase = "running"
    /\ shutdowns > 0
    /\ httpConnections > 0
    /\ UNCHANGED vars

\* the timer of lines 503-506 fires, 5 seconds after httpServer.close() was
\* called and before the server has closed: the promise is rejected and the
\* handler of line 517 exits with 1. The timer of the first run fires first.
ShutdownTimeout ==
    /\ procPhase = "running"
    /\ shutdowns > 0
    /\ httpConnections > 0
    /\ Exit(1, "timeout")
    /\ UNCHANGED <<dvars, svars, cvars, stdioConnected, shutdowns, engineCloses,
                   httpCloses, httpConnections>>

\* the argument the callback of run i of shutdown is called with: the first
\* call of httpServer.close() finds the listener running, a later one finds
\* it closed already and its callback receives ERR_SERVER_NOT_RUNNING
CloseCallbackError(i) == i > 1

\* the HTTP server emits 'close', its last connection gone: the callbacks of
\* lines 508-516 run in the order of their registration. The callback of the
\* first run resolves its promise, one that received an error rejects its
\* own, whose handler (line 517) runs before the first run reaches line 521.
HttpServerClosed ==
    /\ procPhase = "running"
    /\ shutdowns > 0
    /\ httpConnections = 0
    /\ IF \E i \in 1 .. shutdowns : CloseCallbackError(i)
       THEN Exit(1, "close error")
       ELSE Exit(0, "complete")
    /\ UNCHANGED <<dvars, svars, cvars, stdioConnected, shutdowns, engineCloses,
                   httpCloses, httpConnections>>

\* a client opens a connection to the listener of streamableHttp.ts:148 and
\* keeps it; a listener that was closed accepts none
ClientConnects ==
    /\ procPhase = "running"
    /\ transportMode = "streamable-http"
    /\ httpListening
    /\ ~HttpClosing
    /\ httpConnections < MaxSessions
    /\ httpConnections' = httpConnections + 1
    /\ UNCHANGED <<dvars, svars, cvars, stdioConnected, shutdowns, engineCloses,
                   httpCloses, procPhase, exitCode, exitCause>>

\* a client closes a connection it held
ClientDisconnects ==
    /\ procPhase = "running"
    /\ httpConnections > 0
    /\ httpConnections' = httpConnections - 1
    /\ UNCHANGED <<dvars, svars, cvars, stdioConnected, shutdowns, engineCloses,
                   httpCloses, procPhase, exitCode, exitCause>>

----------------------------------------------------------------------------
(* The sessions' tool calls, followed through the protocol engine *)

\* tool calls a session client submits: one whose arguments parse, one whose
\* arguments do not
SessionInvocations ==
    {[name |-> "yapi_get_project_info", args |-> [NoArgs EXCEPT !.obj = TRUE]],
     [name |-> "yapi_get_interface_details", args |-> [NoArgs EXCEPT !.obj = TRUE]]}

\* transport.send(response, {relatedRequestId: id}): written only when the
\* transport holds an open stream for that request id; undefined?.send(...)
\* does nothing, a transport without such a stream throws and the engine
\* reports the error to onerror
Accepts(streams, target, id) ==
    target \in Transports /\ id \in streams[target]

\* the engine sends the response of request id, received on origin, to target
Send(streams, target, origin, id) ==
    /\ delivered' =
            IF Accepts(streams, target, id)
            THEN [on |-> target, origin |-> origin, id |-> id]
            ELSE delivered
    /\ tStreams' =
            IF Accepts(streams, target, id)
            THEN [streams EXCEPT ![target] = @ \ {id}]
            ELSE streams

\* reuse branch, POST of a tools/call request, followed into the engine: the
\* stored transport opens the response stream of the request and hands the
\* message to the engine, whose CallTool handler runs up to its first await
\* or to its return
RoutedToolCall(sid, id, inv) ==
    /\ Serving("streamable-http")
    /\ Branch(activeTransports, "POST", sid, "other") = "reuse"
    /\ Lookup(activeTransports, sid) \in Transports
    /\ LET t == Lookup(activeTransports, sid)
           opened == [tStreams EXCEPT ![t] = @ \cup {id}]
       IN  /\ id \notin tStreams[t]
           /\ ~ \E c \in calls : c.origin = t /\ c.id = id
           /\ lastReq' = Arrived("POST", sid, "other")
           /\ lastRes' = TransportAnswer(t, 200, NoSid)
           /\ IF CallsService(inv.name, inv.args)
              THEN /\ calls' = calls \cup
                        {[origin |-> t, id |-> id,
                          after |-> {d.id : d \in {e \in calls : e.origin = t}}]}
                   /\ tStreams' = opened
                   /\ UNCHANGED delivered
              ELSE /\ Send(opened, engineTransport, t, id)
                   /\ UNCHANGED calls
    /\ UNCHANGED <<activeTransports, tState, tSid, engineTransport, generated,
                   removals, closedSids>>
    /\ UNCHANGED <<dvars, pvars>>

\* variant of BackendRespond that drops the session of the call from the
\* routing table once the result has been sent
BackendRespondForgetsSession(c) ==
    /\ Serving("streamable-http")
    /\ c \in calls
    /\ calls' = calls \ {c}
    /\ Send(tStreams, engineTransport, c.origin, c.id)
    /\ activeTransports' = OnClose(activeTransports, tSid[c.origin])
    /\ UNCHANGED <<tState, tSid, engineTransport, generated,
                   lastReq, lastRes, removals, closedSids>>
    /\ UNCHANGED <<dvars, pvars>>

\* the awaited service call of a tool call settles and the engine sends the
\* handler's result through the transport it holds (this._transport), which
\* is the transport connected last
BackendRespond(c) ==
    /\ Serving("streamable-http")
    /\ c \in calls
    /\ calls' = calls \ {c}
    /\ Send(tStreams, engineTransport, c.origin, c.id)
    /\ UNCHANGED <<activeTransports, tState, tSid, engineTransport, generated,
                   lastReq, lastRes, removals, closedSids>>
    /\ UNCHANGED <<dvars, pvars>>

----------------------------------------------------------------------------
(* main(): the start of the process *)

\* the transport the process was started to serve: mcp_server.ts main starts
\* the streaming HTTP binding, index.ts main the SSE binding, both the stdio
\* transport; "websocket" is a mode neither knows
TransportModes == {"streamable-http", "sse", "stdio", "websocket"}

\* mcp_server.ts holds two definitions of createMcpServer; their CallTool
\* handlers differ in the catch block
CallToolVariants == {"earlier", "later"}

\* a variable of the environment that is not set
NotSet == "(not set)"

\* values of YAPI_BASE_URL and YAPI_PROJECT_TOKEN
BaseUrls == {NotSet, "", "yapi.example.com", "http://yapi.example.com/v1/"}
Tokens4Env == {NotSet, "", "token-1"}

\* new URL(u) succeeds
ParsesAsUrl(u) ==
    u \in {"http://yapi.example.com", "http://yapi.example.com/",
           "http://yapi.example.com/v1/"}

\* new URL(u).pathname and protocol + "//" + host
UrlPathname(u) == IF u = "http://yapi.example.com/v1/" THEN "/v1/" ELSE "/"
UrlOrigin(u) == "http://yapi.example.com"

\* baseUrl.endsWith('/') ? baseUrl.slice(0, -1) : baseUrl
StripTrailingSlash(u) ==
    IF u = "http://yapi.example.com/" THEN "http://yapi.example.com" ELSE u

\* !value: undefined or the empty string
Falsy(value) == value \in {NotSet, ""}

ConfigurationError(message) ==
    [PlainError("ConfigurationError") EXCEPT !.message = message]

NoService == [baseUrl |-> "", apiBase |-> "", token |-> ""]

\* variant of NewYapiService that accepts a missing credential
NewYapiServiceWithoutToken(baseUrl, token) ==
    IF Falsy(baseUrl) THEN
        [ok |-> FALSE, service |-> NoService,
         error |-> ConfigurationError(
                        "YAPI_BASE_URL environment variable is not configured.")]
    ELSE IF ~ParsesAsUrl(baseUrl) THEN
        [ok |-> FALSE, service |-> NoService,
         error |-> ConfigurationError("Invalid YAPI_BASE_URL provided: \"" \o baseUrl
                        \o "\". It should be a valid URL like \"https://yapi.example.com\".")]
    ELSE LET base == IF UrlPathname(baseUrl) \notin {"/", ""} THEN UrlOrigin(baseUrl)
                     ELSE StripTrailingSlash(baseUrl)
         IN  [ok |-> TRUE, error |-> NoError,
              service |-> [baseUrl |-> base, apiBase |-> base \o "/api", token |-> token]]

\* new YapiService(baseUrl, token): the service, or the ConfigurationError
\* the constructor throws
NewYapiService(baseUrl, token) ==
    IF Falsy(baseUrl) THEN
        [ok |-> FALSE, service |-> NoService,
         error |-> ConfigurationError(
                        "YAPI_BASE_URL environment variable is not configured.")]
    ELSE IF Falsy(token) THEN
        [ok |-> FALSE, service |-> NoService,
         error |-> ConfigurationError(
                        "YAPI_PROJECT_TOKEN environment variable is not configured.")]
    ELSE IF ~ParsesAsUrl(baseUrl) THEN
        [ok |-> FALSE, service |-> NoService,
         error |-> ConfigurationError("Invalid YAPI_BASE_URL provided: \"" \o baseUrl
                        \o "\". It should be a valid URL like \"https://yapi.example.com\".")]
    ELSE LET base == IF UrlPathname(baseUrl) \notin {"/", ""} THEN UrlOrigin(baseUrl)
                     ELSE StripTrailingSlash(baseUrl)
         IN  [ok |-> TRUE, error |-> NoError,
              service |-> [baseUrl |-> base, apiBase |-> base \o "/api", token |-> token]]

PInit ==
    /\ transportMode \in TransportModes
    /\ callToolVariant \in CallToolVariants
    /\ env \in [baseUrl : BaseUrls, token : Tokens4Env]
    /\ procPhase = "starting"
    /\ exitCode = 0
    /\ startupError = NoError
    /\ yapiService = NoService
    /\ mcpServerCreated = FALSE
    /\ httpListening = FALSE
    /\ stdioConnected = FALSE
    /\ lastListing = <<>>
    /\ shutdowns = 0
    /\ engineCloses = 0
    /\ httpCloses = 0
    /\ httpConnections = 0
    /\ exitCause = ""

\* main(): the service is constructed, then the dispatcher is created and the
\* binding of the transport mode started; process.exit(1) when the
\* constructor throws or the mode is none of the entry point's
Main ==
    /\ procPhase = "starting"
    /\ LET r == NewYapiService(env.baseUrl, env.token)
       IN  IF ~r.ok
           THEN /\ procPhase' = "exited"
                /\ exitCode' = 1
                /\ exitCause' = "configuration"
                /\ startupError' = r.error
                /\ UNCHANGED <<yapiService, mcpServerCreated, httpListening,
                               stdioConnected>>
           ELSE /\ yapiService' = r.service
                /\ mcpServerCreated' = TRUE
                /\ UNCHANGED startupError
                /\ IF transportMode \in {"streamable-http", "sse"}
                   THEN /\ httpListening' = TRUE
                        /\ procPhase' = "running"
                        /\ UNCHANGED <<exitCode, exitCause, stdioConnected>>
                   ELSE IF transportMode = "stdio"
                   THEN /\ stdioConnected' = TRUE
                        /\ procPhase' = "running"
                        /\ UNCHANGED <<exitCode, exitCause, httpListening>>
                   ELSE /\ procPhase' = "exited"
                        /\ exitCode' = 1
                        /\ exitCause' = "transport mode"
                        /\ UNCHANGED <<httpListening, stdioConnected>>
    /\ UNCHANGED <<transportMode, callToolVariant, env, lastListing, shutdowns,
                   engineCloses, httpCloses, httpConnections>>
    /\ UNCHANGED <<dvars, svars>>

\* const TOOLS.  description is the number of characters of the tool's
\* description, a Chinese text; inputSchema is what zodToJsonSchema makes of
\* the argument schema
TOOLS ==
    <<[name |-> "yapi_get_interface_details", description |-> 36,
       inputSchema |-> [type |-> "object", properties |-> {"interface_id"},
                        required |-> {"interface_id"}],
       annotations |-> [readOnlyHint |-> TRUE, title |-> "Get YAPI Interface Details"]],
      [name |-> "yapi_list_interfaces_by_category", description |-> 45,
       inputSchema |-> [type |-> "object",
                        properties |-> {"category_id", "page", "limit"},
                        required |-> {"category_id"}],
       annotations |-> [readOnlyHint |-> TRUE,
                        title |-> "List YAPI Interfaces by Category"]],
      [name |-> "yapi_get_project_interface_menu", description |-> 43,
       inputSchema |-> [type |-> "object", properties |-> {}, required |-> {}],
       annotations |-> [readOnlyHint |-> TRUE, title |-> "Get YAPI Project Menu"]],
      [name |-> "yapi_get_project_info", description |-> 30,
       inputSchema |-> [type |-> "object", properties |-> {}, required |-> {}],
       annotations |-> [readOnlyHint |-> TRUE, title |-> "Get YAPI Project Info"]]>>

\* variant of ListToolsResult that leaves the last tool out
ListToolsResultWithoutLast == SubSeq(TOOLS, 1, Len(TOOLS) - 1)

\* the ListTools handler: return { tools: TOOLS }
ListToolsResult == TOOLS

\* a tools/list request is answered
ListTools ==
    /\ procPhase = "running"
    /\ lastListing' = ListToolsResult
    /\ UNCHANGED <<transportMode, callToolVariant, env, procPhase, exitCode,
                   startupError, yapiService, mcpServerCreated, httpListening,
                   stdioConnected, hvars>>
    /\ UNCHANGED <<dvars, svars>>

----------------------------------------------------------------------------
(* SpecDispatch: one invocation of the CallTool handler *)

\* no earlier invocation is remembered
NoPrev ==
    [name |-> "", args |-> NoArgs, backend |-> NoBehaviour, request |-> "",
     result |-> NoResult, escaped |-> FALSE]

DInit ==
    /\ dPhase = "idle"
    /\ dName = ""
    /\ dArgs = NoArgs
    /\ dBackendRequests = 0
    /\ dResult = NoResult
    /\ dEscaped = FALSE
    /\ dBackend = NoBehaviour
    /\ dError = NoError
    /\ dRequest = ""
    /\ dPrev = NoPrev

\* the handler from its entry to its first await, or to its return when the
\* tool is unknown or the arguments do not parse
Invoke(name, args) ==
    /\ procPhase = "running"
    /\ dPhase = "idle"
    /\ dName' = name
    /\ dArgs' = args
    /\ IF CallsService(name, args)
       THEN /\ dPhase' = "awaitBackend"
            /\ dBackendRequests' = dBackendRequests + 1
            /\ dRequest' = RequestUrl(yapiService, ServiceParams(ParsedArgs(name, args)))
            /\ UNCHANGED <<dResult, dEscaped, dError>>
       ELSE /\ dPhase' = "done"
            /\ dResult' = EarlyResult(name, args)
            /\ dError' = IF name \in ToolNames
                          THEN ZodError(SchemaIssues(name, args)) ELSE NoError
            /\ UNCHANGED <<dBackendRequests, dEscaped, dRequest>>
    /\ UNCHANGED <<dBackend, dPrev>>
    /\ UNCHANGED <<svars, pvars>>

\* variant of BackendAnswer that issues the request a second time when the
\* first one failed
BackendAnswerRetries(beh) ==
    /\ dPhase = "awaitBackend"
    /\ dBackend' = beh
    /\ LET r == ServiceCall(ParsedArgs(dName, dArgs), beh)
       IN  IF ~r.ok /\ dBackendRequests < 2
           THEN /\ dBackendRequests' = dBackendRequests + 1
                /\ UNCHANGED <<dPhase, dResult, dEscaped, dError>>
           ELSE /\ dPhase' = "done"
                /\ dError' = IF r.ok THEN NoError ELSE r.error
                /\ dResult' = LateResult(dName, dArgs, beh)
                /\ UNCHANGED <<dEscaped, dBackendRequests>>
    /\ UNCHANGED <<dName, dArgs, dRequest, dPrev>>
    /\ UNCHANGED <<svars, pvars>>

\* the awaited service call settles: the handler returns the success result
\* or the catch block's result
BackendAnswer(beh) ==
    /\ dPhase = "awaitBackend"
    /\ dPhase' = "done"
    /\ dBackend' = beh
    /\ LET r == ServiceCall(ParsedArgs(dName, dArgs), beh)
       IN  /\ dError' = IF r.ok THEN NoError ELSE r.error
           /\ IF r.ok \/ Caught(r.error)
              THEN /\ dResult' = LateResult(dName, dArgs, beh)
                   /\ UNCHANGED dEscaped
              ELSE /\ dEscaped' = TRUE
                   /\ UNCHANGED dResult
    /\ UNCHANGED <<dName, dArgs, dBackendRequests, dRequest, dPrev>>
    /\ UNCHANGED <<svars, pvars>>

\* the handler is free for the next invocation; remember tells whether the
\* invocation that has ended is the one kept for comparison
NextInvocation(remember) ==
    /\ dPhase = "done"
    /\ dPhase' = "idle"
    /\ dName' = ""
    /\ dArgs' = NoArgs
    /\ dBackendRequests' = 0
    /\ dResult' = NoResult
    /\ dEscaped' = FALSE
    /\ dBackend' = NoBehaviour
    /\ dError' = NoError
    /\ dRequest' = ""
    /\ dPrev' = IF remember
                THEN [name |-> dName, args |-> dArgs, backend |-> dBackend,
                      request |-> dRequest, result |-> dResult, escaped |-> dEscaped]
                ELSE dPrev
    /\ UNCHANGED <<svars, pvars>>

\* invocations and backend behaviours of the runs that repeat invocations
RepeatPayloadsFor(name) ==
    CASE name = "yapi_get_interface_details" ->
            {[NoArgs EXCEPT !.obj = TRUE, !.interface_id = v] :
                v \in {Absent} \cup {[k |-> "int", n |-> i] : i \in 1 .. MaxArgInt}}
      [] name = "yapi_list_interfaces_by_category" ->
            {[NoArgs EXCEPT !.obj = TRUE, !.category_id = [k |-> "int", n |-> c],
                            !.page = pg, !.limit = l] :
                c \in 1 .. MaxArgInt,
                pg \in {Absent, [k |-> "int", n |-> DefaultPage], [k |-> "int", n |-> 2]},
                l \in {Absent, [k |-> "int", n |-> DefaultLimit]}}
      [] OTHER -> {[NoArgs EXCEPT !.obj = TRUE]}

RepeatBehaviours ==
    {b \in Behaviours :
        \/ b.fetch = "throws"
        \/ b.status = 500 /\ b.ctype = "text"
        \/ /\ b.status = 200 /\ b.json /\ b.fault = "none" /\ b.body.data = "ok"
           /\ b.body.errcodeKey
           /\ <<b.body.errcode, b.body.errmsg>> \in {<<0, "">>, <<40011, "token invalid">>}}

RNext ==
    \/ Main
    \/ \E name \in ToolNames : \E args \in RepeatPayloadsFor(name) : Invoke(name, args)
    \/ \E beh \in RepeatBehaviours : BackendAnswer(beh)
    \/ \E remember \in BOOLEAN : NextInvocation(remember)

DNext ==
    \/ Main
    \/ \E name \in RequestedNames : \E args \in PayloadsFor(name) : Invoke(name, args)
    \/ \E beh \in Behaviours : BackendAnswer(beh)

----------------------------------------------------------------------------
(* The specifications: SpecDispatch follows one invocation of the CallTool  *)
(* handler, Spec the /mcp handler and the routing table, SpecDelivery also   *)
(* the tool calls of the sessions through the engine                         *)

Init == DInit /\ SInit /\ PInit

SpecDispatch == Init /\ [][DNext]_vars

\* the backend answers a details request with a payload of the expected
\* shape: res_body is any value of its type, req_body_other is absent, null,
\* the same string, or one of two fixed strings
DetailsBehaviours ==
    {[fetch |-> "ok", status |-> 200, ctype |-> "json", json |-> TRUE,
      body |-> [errcodeKey |-> TRUE, errcode |-> 0, errmsg |-> "", data |-> "ok"],
      fault |-> "none", detail |-> "", res_body |-> r, req_body_other |-> q] :
        r \in BodyValues,
        q \in {Undefined, Null, [k |-> "string", s |-> <<"{", "}">>],
               [k |-> "string", s |-> <<"x">>]}}
        \cup {[fetch |-> "ok", status |-> 200, ctype |-> "json", json |-> TRUE,
               body |-> [errcodeKey |-> TRUE, errcode |-> 0, errmsg |-> "",
                         data |-> "ok"],
               fault |-> "none", detail |-> "", res_body |-> r, req_body_other |-> r] :
                r \in BodyValues}

DetailsNext ==
    \/ Main
    \/ \E i \in 1 .. MaxArgInt :
            Invoke("yapi_get_interface_details",
                   [NoArgs EXCEPT !.obj = TRUE, !.interface_id = [k |-> "int", n |-> i]])
    \/ \E beh \in DetailsBehaviours : BackendAnswer(beh)

\* details calls that the backend answers successfully
SpecDetails == Init /\ [][DetailsNext]_vars

\* invocations one after another, one earlier invocation remembered
SpecRepeat == Init /\ [][RNext]_vars

Next ==
    \/ Main
    \/ \E r \in HttpRequests : Reject(r.method, r.sid, r.body)
    \/ \E r \in HttpRequests : ReuseInherited(r.method, r.sid, r.body)
    \/ \E oc \in InitOutcomes : Initialize(oc)
    \/ \E sid \in HeaderSids : RoutedDelete(sid)
    \/ \E r \in HttpRequests, oc \in RouteOutcomes :
            RoutedOther(r.method, r.sid, r.body, oc)
    \/ \E t \in Transports : TransportCloses(t)
    \/ \E oc \in ShutdownOutcomes : Shutdown(oc)

Spec == Init /\ [][Next]_vars

NextDelivery ==
    \/ Next
    \/ \E sid \in HeaderSids, id \in ReqIds, inv \in SessionInvocations :
            RoutedToolCall(sid, id, inv)
    \/ \E c \in calls : BackendRespond(c)

SpecDelivery == Init /\ [][NextDelivery]_vars

----------------------------------------------------------------------------
(* transports/sse.ts: GET /sse and POST /messages, started by index.ts. The  *)
(* binding keeps its own routing table, session id -> SSE transport, and    *)
(* connects every transport to the one protocol engine.                     *)

\* variant of SseRegister that stores every transport under the id issued
\* first
SseRegisterUnderFirstId(table, sid, t) ==
    [s \in DOMAIN table \cup {UuidNames[1]} |-> IF s = UuidNames[1] THEN t ELSE table[s]]

\* activeTransports[sessionId] = transport, before mcpServer.connect
SseRegister(table, sid, t) ==
    [s \in DOMAIN table \cup {sid} |-> IF s = sid THEN t ELSE table[s]]

\* if (activeTransports[sessionId]) delete activeTransports[sessionId]: the
\* test of the close listener and of the catch block
SseDeletes(table, sid) == Truthy(Lookup(table, sid))

SseDelete(table, sid) ==
    IF SseDeletes(table, sid)
    THEN [s \in DOMAIN table \ {sid} |-> table[s]]
    ELSE table

\* res.status(status).json({error: message})
SseAnswer(status, message) ==
    [by |-> "binding", status |-> status, code |-> 0, message |-> message,
     sidHeader |-> NoSid, transport |-> 0, id |-> NullId, writes |-> 1,
     endedBy |-> "binding"]

\* variant of SseConnect whose catch block leaves the entry of the transport
\* that failed to connect in the routing table
SseConnectKeepsFailedEntry(oc) ==
    /\ Serving("sse")
    /\ \E t \in Transports :
        /\ tState[t] = "none"
        /\ \A u \in Transports : u < t => tState[u] # "none"
        /\ lastReq' = Arrived("GET", NoSid, "")
        /\ tSid' = [tSid EXCEPT ![t] = NewSessionId]
        /\ generated' = generated \cup {NewSessionId}
        /\ engineTransport' = t
        /\ activeTransports' = SseRegister(activeTransports, NewSessionId, t)
        /\ IF oc = "ok"
           THEN /\ tState' = [tState EXCEPT ![t] = "connected"]
                /\ lastRes' = TransportAnswer(t, 200, NoSid)
           ELSE /\ tState' = [tState EXCEPT ![t] = "created"]
                /\ lastRes' = SseAnswer(500, "Server connection setup failed")
        /\ UNCHANGED removals
    /\ UNCHANGED <<tStreams, calls, delivered, closedSids>>
    /\ UNCHANGED <<dvars, pvars>>

\* GET /sse, lines 38-76: the transport is constructed with a fresh session
\* id and stored in the table, the close listener is registered, and
\* mcpServer.connect makes the transport the engine's and starts it. connect
\* settles within the turn of the event loop that runs the handler, so no
\* other handler runs between the insert and the end of connect; when it
\* throws, the catch block deletes the entry and answers 500.
SseConnect(oc) ==
    /\ Serving("sse")
    /\ \E t \in Transports :
        /\ tState[t] = "none"
        /\ \A u \in Transports : u < t => tState[u] # "none"
        /\ lastReq' = Arrived("GET", NoSid, "")
        /\ tSid' = [tSid EXCEPT ![t] = NewSessionId]
        /\ generated' = generated \cup {NewSessionId}
        /\ engineTransport' = t
        /\ LET stored == SseRegister(activeTransports, NewSessionId, t)
           IN  IF oc = "ok"
               THEN /\ activeTransports' = stored
                    /\ tState' = [tState EXCEPT ![t] = "connected"]
                    /\ lastRes' = TransportAnswer(t, 200, NoSid)
                    /\ UNCHANGED removals
               ELSE /\ activeTransports' = SseDelete(stored, NewSessionId)
                    /\ tState' = [tState EXCEPT ![t] = "created"]
                    /\ lastRes' = SseAnswer(500, "Server connection setup failed")
                    /\ removals' = [removals EXCEPT ![t] =
                            IF SseDeletes(stored, NewSessionId) THEN @ + 1 ELSE @]
    /\ UNCHANGED <<tStreams, calls, delivered, closedSids>>
    /\ UNCHANGED <<dvars, pvars>>

\* POST /messages, lines 83-96: no sessionId query parameter, or one the
\* table has no entry for
SsePostRejected(sid) ==
    /\ Serving("sse")
    /\ sid = NoSid \/ ~Truthy(Lookup(activeTransports, sid))
    /\ lastReq' = Arrived("POST", sid, "other")
    /\ lastRes' = IF sid = NoSid
                  THEN SseAnswer(400, "Missing sessionId query parameter")
                  ELSE SseAnswer(404, "No active transport found for sessionId: " \o sid)
    /\ UNCHANGED <<activeTransports, tState, tSid, tStreams, engineTransport,
                   generated, calls, delivered, removals, closedSids>>
    /\ UNCHANGED <<dvars, pvars>>

\* POST /messages, lines 99-108: the entry found handles the message and
\* answers 202 (oc = "ok"), or handlePostMessage throws into the catch block;
\* for a name inherited from Object.prototype it is not a function and the
\* call throws a TypeError
SsePostRouted(sid, oc) ==
    /\ Serving("sse")
    /\ sid # NoSid
    /\ Truthy(Lookup(activeTransports, sid))
    /\ Lookup(activeTransports, sid) = -1 => oc = "throws"
    /\ lastReq' = Arrived("POST", sid, "other")
    /\ lastRes' =
        IF oc = "throws"
        THEN [SseAnswer(500, "Internal Server Error handling message")
                EXCEPT !.transport = IF Lookup(activeTransports, sid) \in Transports
                                     THEN Lookup(activeTransports, sid) ELSE 0]
        ELSE TransportAnswer(Lookup(activeTransports, sid), 202, NoSid)
    /\ UNCHANGED <<activeTransports, tState, tSid, tStreams, engineTransport,
                   generated, calls, delivered, removals, closedSids>>
    /\ UNCHANGED <<dvars, pvars>>

\* the client of transport t disconnects: the close listener of line 50
\* deletes the entry if it is there, the transport's own listener reports the
\* close to the engine, which drops the transport it holds
SseClientDisconnects(t) ==
    /\ Serving("sse")
    /\ tState[t] = "connected"
    /\ tState' = [tState EXCEPT ![t] = "closed"]
    /\ activeTransports' = SseDelete(activeTransports, tSid[t])
    /\ removals' = [removals EXCEPT ![t] =
                        IF SseDeletes(activeTransports, tSid[t]) THEN @ + 1 ELSE @]
    /\ closedSids' = closedSids \cup {tSid[t]}
    /\ engineTransport' = 0
    /\ UNCHANGED <<tSid, tStreams, generated, calls, delivered, lastReq, lastRes>>
    /\ UNCHANGED <<dvars, pvars>>

SseNext ==
    \/ \E oc \in {"ok", "connectThrows"} : SseConnect(oc)
    \/ \E sid \in HeaderSids : SsePostRejected(sid)
    \/ \E sid \in HeaderSids, oc \in {"ok", "throws"} : SsePostRouted(sid, oc)
    \/ \E t \in Transports : SseClientDisconnects(t)

\* the process serves one binding or the other, as it was started
NextBindings == Next \/ SseNext

\* the bindings, and the tools/list requests of their clients
NextListing == NextBindings \/ ListTools

SpecListing == Init /\ [][NextListing]_vars

\* sessions that are created, call tools and are closed
NextToolCalls ==
    \/ Main
    \/ \E oc \in InitOutcomes : Initialize(oc)
    \/ \E sid \in HeaderSids : RoutedDelete(sid)
    \/ \E t \in Transports : TransportCloses(t)
    \/ \E sid \in HeaderSids, id \in ReqIds, inv \in SessionInvocations :
            RoutedToolCall(sid, id, inv)
    \/ \E c \in calls : BackendRespond(c)

SpecToolCalls == Init /\ [][NextToolCalls]_vars

SpecBindings == Init /\ [][NextBindings]_vars

\* sessions that are created and closed, connections that clients open and
\* close, and the signals that end the process
NextShutdown ==
    \/ Main
    \/ \E oc \in {"ok", "throwsAfter"} : Initialize(oc)
    \/ \E sid \in HeaderSids : RoutedDelete(sid)
    \/ \E t \in Transports : TransportCloses(t)
    \/ ClientConnects
    \/ ClientDisconnects
    \/ \E oc \in ShutdownOutcomes : Shutdown(oc)
    \/ ShutdownTimeout
    \/ HttpServerClosed

SpecShutdown == Init /\ [][NextShutdown]_vars

\* the event loop runs a timer that is due and a callback that is ready
FairShutdown == WF_vars(ShutdownTimeout) /\ WF_vars(HttpServerClosed)

SpecShutdownLive == SpecShutdown /\ FairShutdown

----------------------------------------------------------------------------
(* Properties *)

\* C1: in the streaming binding, whatever the interleaving of the sessions'
\* tool calls and of the backend's answers, the result of a tool call
\* submitted on one session is written only to that session's transport,
\* never to another session's
C1_ResultOnlyOnOwnTransport ==
    delivered # NoDelivery => delivered.on = delivered.origin

PositiveInteger(v) == v.k = "int" /\ v.n >= 1

\* the payload violates the argument schema of a defined tool: it is no
\* object, a required id is missing, of the wrong type, not an integer, zero
\* or negative, or page / limit is given and is no positive integer
ViolatesArgumentSchema(name, args) ==
    /\ name \in ToolNames
    /\ \/ ~args.obj
       \/ /\ name = "yapi_get_interface_details"
          /\ ~PositiveInteger(args.interface_id)
       \/ /\ name = "yapi_list_interfaces_by_category"
          /\ \/ ~PositiveInteger(args.category_id)
             \/ args.page.k # "absent" /\ ~PositiveInteger(args.page)
             \/ args.limit.k # "absent" /\ ~PositiveInteger(args.limit)

\* C2: an invocation whose argument payload violates the tool's schema ends
\* with an error result and without any backend request: validation fails
\* before a backend call is attempted
C2_InvalidArgumentsNoBackendCall ==
    (dPhase # "idle" /\ ViolatesArgumentSchema(dName, dArgs)) =>
        /\ dPhase = "done"
        /\ dResult.isError
        /\ dBackendRequests = 0

\* C2, reached: a category listing with limit 0 is refused without a request
C2_LimitZeroRefused ==
    /\ dPhase = "done"
    /\ dName = "yapi_list_interfaces_by_category"
    /\ dArgs.category_id = [k |-> "int", n |-> 1]
    /\ dArgs.page = Absent
    /\ dArgs.limit = [k |-> "int", n |-> 0]
    /\ dResult.isError
    /\ dResult.text = "Invalid arguments for tool yapi_list_interfaces_by_category: "
                        \o "limit: Number must be greater than 0"
    /\ dBackendRequests = 0

\* C3: no failure leaves call_tool: whatever the tool name, the payload and
\* the backend's behaviour, the invocation ends with a result, success or
\* error-flavoured, and no exception escapes the handler
C3_NoFailureEscapes ==
    /\ ~dEscaped
    /\ dPhase = "done" => dResult # NoResult /\ dResult.text # ""

\* C3, reached: a thrown value that is no Error has become an error result
C3_UnknownErrorBecameResult ==
    /\ dPhase = "done"
    /\ dBackendRequests = 1
    /\ dResult.isError
    /\ dResult.text = "An unknown error occurred while processing tool "
                        \o "yapi_get_project_info."

IsInitializePost(r) == r.method = "POST" /\ r.sid = NoSid /\ r.body = "initialize"

\* a step in which the /mcp handler has answered a request
Answered == lastRes' # NoRes /\ <<lastReq, lastRes>>' # <<lastReq, lastRes>>

\* C4: a request bearing a session id that is not in the routing table is
\* answered 404 by the binding itself, with a JSON-RPC error body, and is
\* handed to no transport
C4_UnknownSessionIdAnswered404 ==
    (lastRes # NoRes /\ lastReq.sid # NoSid /\ ~lastReq.known) =>
        /\ lastRes.by = "binding"
        /\ lastRes.status = 404
        /\ lastRes.code = -32000
        /\ lastRes.transport = 0

\* C5: a request without a session id that is no initialize POST is answered
\* by the binding with a 4xx status and a JSON-RPC error naming the problem;
\* the step creates no transport and leaves the routing table as it was
C5_MissingSessionIdIsClientError ==
    /\ []((lastRes # NoRes /\ lastReq.sid = NoSid /\ ~IsInitializePost(lastReq)) =>
            /\ lastRes.by = "binding"
            /\ lastRes.status \in 400 .. 499
            /\ lastRes.code = -32000
            /\ lastRes.message \in
                {"Bad Request: Mcp-Session-Id header required for this request.",
                 "Bad Request: Invalid request combination."}
            /\ lastRes.transport = 0)
    /\ [][(Answered /\ lastReq'.sid = NoSid /\ ~IsInitializePost(lastReq')) =>
            UNCHANGED <<activeTransports, tState, tSid, generated, engineTransport>>]_vars

\* C5, reached: with a session open, a POST without session id that is no
\* initialize request has been answered 400
C5_PostWithoutSessionIdRefused ==
    /\ lastReq.method = "POST"
    /\ lastReq.sid = NoSid
    /\ lastReq.body = "other"
    /\ lastRes.status = 400
    /\ DOMAIN activeTransports # {}

\* the step constructs transport t
Created(t) == tState[t] = "none" /\ tState'[t] # "none"

\* C6, as stated: every initialize POST without session id adds exactly one
\* entry to the routing table, under a freshly generated id that the answer
\* returns
C6_EveryInitializeAddsOneEntry ==
    [][\A t \in Transports : Created(t) =>
            /\ tState'[t] = "connected"
            /\ tSid'[t] # NoSid
            /\ DOMAIN activeTransports' \ DOMAIN activeTransports = {tSid'[t]}
            /\ lastRes'.sidHeader = tSid'[t]]_vars

\* C6, amended: an initialize POST without session id constructs exactly one
\* transport and adds at most one entry to the routing table, under an id not
\* used before that is assigned to that transport. When the transport
\* accepts the request (it answers 200) the entry is added and the answer
\* returns the id; when connecting fails, or the transport refuses the
\* request or throws before an id is assigned, the table is unchanged. No
\* other step constructs a transport or adds an entry.
C6_InitializeAddsAtMostOneEntry ==
    [][/\ \A t \in Transports : Created(t) =>
            /\ IsInitializePost(lastReq')
            /\ \A u \in Transports \ {t} : ~Created(u)
            /\ \/ /\ tState'[t] = "connected"
                  /\ tSid'[t] # NoSid
                  /\ tSid'[t] \notin generated
                  /\ tSid'[t] \notin DOMAIN activeTransports
                  /\ DOMAIN activeTransports' = DOMAIN activeTransports \cup {tSid'[t]}
                  /\ activeTransports'[tSid'[t]] = t
                  /\ \A s \in DOMAIN activeTransports :
                        activeTransports'[s] = activeTransports[s]
                  /\ lastRes'.by = "transport" =>
                        lastRes'.status = 200 /\ lastRes'.sidHeader = tSid'[t]
               \/ /\ tSid'[t] = NoSid
                  /\ activeTransports' = activeTransports
                  /\ lastRes'.sidHeader = NoSid
                  /\ lastRes'.status # 200
       /\ (DOMAIN activeTransports' \ DOMAIN activeTransports # {}) =>
            \E t \in Transports : Created(t)]_vars

\* C6, reached: a second session has been created and its id returned
C6_SecondSessionCreated ==
    /\ IsInitializePost(lastReq)
    /\ lastRes.by = "transport"
    /\ lastRes.sidHeader = "uuid-2"
    /\ DOMAIN activeTransports = {"uuid-1", "uuid-2"}
    /\ activeTransports["uuid-2"] = 2

\* C7: a request bearing a session id that is in the routing table is handed
\* to the transport that was given that id at its initialization, and to no
\* other; the step constructs no transport
C7_KnownSessionIdRoutedToItsTransport ==
    /\ []((lastRes # NoRes /\ lastReq.known) =>
            /\ lastRes.transport \in Transports
            /\ tSid[lastRes.transport] = lastReq.sid)
    /\ [][(Answered /\ lastReq'.known) =>
            /\ \A t \in Transports : ~Created(t)
            /\ UNCHANGED <<tSid, generated>>]_vars

\* C7, reached: with two sessions open, a request of the second session has
\* been handed to the second transport
C7_SecondSessionRouted ==
    /\ lastReq.known
    /\ lastReq.method = "GET"
    /\ lastReq.sid = "uuid-2"
    /\ lastRes.transport = 2
    /\ "uuid-1" \in DOMAIN activeTransports

SessionState(st, sids, table, t) ==
    IF st[t] = "none" THEN "None"
    ELSE IF st[t] = "closed" THEN "Closed"
    ELSE IF sids[t] # NoSid /\ sids[t] \in DOMAIN table /\ table[sids[t]] = t
    THEN "Active"
    ELSE "Initializing"

\* C9: a session moves only from Initializing to Active and from Active to
\* Closed: a Closed session stays Closed, an Active one stays Active or
\* becomes Closed, and a transport that is closed or whose entry has been
\* removed is not in the routing table again
C9_LifecycleOnlyForward ==
    [][\A t \in Transports :
        LET before == SessionState(tState, tSid, activeTransports, t)
            after == SessionState(tState', tSid', activeTransports', t)
        IN  /\ before = "Closed" => after = "Closed"
            /\ before = "Active" => after \in {"Active", "Closed"}
            /\ before = "Initializing" => after \in {"Initializing", "Active", "Closed"}
            /\ (before = "Closed" \/ removals[t] > 0) =>
                    \A s \in DOMAIN activeTransports' : activeTransports'[s] # t]_vars

\* C9, reached: the first session is Closed and out of the table while a
\* session created after it is Active
C9_ClosedThenAnotherActive ==
    /\ SessionState(tState, tSid, activeTransports, 1) = "Closed"
    /\ tSid[1] = "uuid-1"
    /\ SessionState(tState, tSid, activeTransports, 2) = "Active"
    /\ lastReq.sid = "uuid-2"

OpenSession(u) ==
    /\ tState[u] = "connected"
    /\ tSid[u] \in DOMAIN activeTransports
    /\ activeTransports[tSid[u]] = u

\* C12: a step that creates, closes or fails the session of one transport
\* leaves every other open session as it was: its table entry, its lifecycle
\* state, and the engine still answering its requests on its own transport
\* if it did before
C12_OtherSessionsUnchanged ==
    [][\A t, u \in Transports :
        t # u /\ tState'[t] # tState[t] /\ OpenSession(u)
            => /\ tState'[u] = tState[u]
               /\ tSid'[u] = tSid[u]
               /\ tSid[u] \in DOMAIN activeTransports'
               /\ activeTransports'[tSid[u]] = u
               /\ engineTransport = u => engineTransport' = u]_vars

\* C13: a session identifier is assigned to one transport only: the id a
\* transport receives was never handed out before, belongs to no session
\* open or closed, and no two transports ever carry the same id
C13_SessionIdNeverReused ==
    /\ [](\A t, u \in Transports :
            t # u /\ tSid[t] # NoSid => tSid[t] # tSid[u])
    /\ [][\A t \in Transports :
            tSid'[t] # tSid[t]
                => /\ tSid[t] = NoSid
                   /\ tSid'[t] \notin generated
                   /\ tSid'[t] \notin closedSids
                   /\ \A u \in Transports : tSid[u] # tSid'[t]]_vars

\* a session was created after an earlier one closed
C13_CreatedAfterClose ==
    /\ IsInitializePost(lastReq)
    /\ lastRes.sidHeader # NoSid
    /\ \E t, u \in Transports :
        /\ tState[t] = "closed" /\ tSid[t] \in closedSids
        /\ tState[u] = "connected" /\ tSid[u] = lastRes.sidHeader

\* C14: closing a session leaves its tool calls that await the backend in
\* flight, and when the backend answers a call whose session has closed, the
\* result is written to no stream, neither the closed session's nor any
\* other's
C14_ClosedSessionResultDiscarded ==
    /\ [][\A t \in Transports :
            tState[t] # "closed" /\ tState'[t] = "closed" => calls' = calls]_vars
    /\ [][\A c \in calls :
            tState[c.origin] = "closed" /\ c \notin calls'
                => UNCHANGED <<delivered, tStreams>>]_vars

\* C15: within one session the tool calls are completed in the order they
\* arrived: when the result of a call is produced, no call that arrived
\* before it on the same session is still waiting for its own
C15_NoOvertakingWithinSession ==
    [][\A c \in calls :
        c \notin calls'
            => ~ \E d \in calls' : d.origin = c.origin /\ d.id \in c.after]_vars

\* C16: an invocation issues at most one backend request: exactly one once
\* the tool name is known and the payload satisfies the tool's schema, none
\* otherwise; the answer to the request, failure or not, ends the
\* invocation without another request
C16_AtMostOneBackendRequest ==
    /\ [](dBackendRequests <= 1)
    /\ [](dPhase # "idle" =>
            dBackendRequests =
                IF dName \in ToolNames /\ ~ViolatesArgumentSchema(dName, dArgs)
                THEN 1 ELSE 0)
    /\ [][dPhase = "awaitBackend" =>
            dPhase' = "done" /\ dBackendRequests' = dBackendRequests]_vars

\* the one request of an invocation failed (HTTP 500) and the invocation
\* ended with an error result
C16_FailedRequestNotRepeated ==
    /\ dPhase = "done"
    /\ dBackend.fetch = "ok" /\ dBackend.status = 500
    /\ dResult.isError
    /\ dBackendRequests = 1

\* C17: an invocation naming a tool that is not defined ends, whatever its
\* payload, with an error result whose text names the unknown tool, without
\* any backend request and without an exception
C17_UnknownToolRefused ==
    (dPhase # "idle" /\ dName \notin ToolNames) =>
        /\ dPhase = "done"
        /\ dResult.isError
        /\ dResult.text = "Error: Unknown tool name '" \o dName \o "'"
        /\ dBackendRequests = 0
        /\ dBackend = NoBehaviour
        /\ ~dEscaped

\* an unknown tool invoked with a payload another tool would accept
C17_UnknownToolWithValidPayload ==
    /\ dPhase = "done"
    /\ dName = "yapi_delete_project"
    /\ dArgs.obj /\ dArgs.category_id = [k |-> "int", n |-> 1]
    /\ dArgs.page = Absent /\ dArgs.limit = Absent
    /\ dResult.isError
    /\ dResult.text = "Error: Unknown tool name 'yapi_delete_project'"

\* the fields of a tool's argument schema, and whether each is required
SchemaFields(name) ==
    CASE name = "yapi_get_interface_details" -> {"interface_id"}
      [] name = "yapi_list_interfaces_by_category" -> {"category_id", "page", "limit"}
      [] OTHER -> {}

FieldRequired(f) == f \in {"interface_id", "category_id"}

FieldValue(args, f) ==
    CASE f = "interface_id" -> args.interface_id
      [] f = "category_id" -> args.category_id
      [] f = "page" -> args.page
      [] OTHER -> args.limit

\* the constraints a field value violates, each by the message that names it
ViolatedConstraints(v, required) ==
    (IF v.k = "absent" /\ required THEN {"Required"} ELSE {})
        \cup (IF v.k = "null" THEN {"Expected number, received null"} ELSE {})
        \cup (IF v.k = "str" THEN {"Expected number, received string"} ELSE {})
        \cup (IF v.k = "float" THEN {"Expected integer, received float"} ELSE {})
        \cup (IF v.k \in {"int", "float"} /\ v.n < (IF v.k = "int" THEN 1 ELSE 0)
              THEN {"Number must be greater than 0"} ELSE {})

\* C18: argument validation rejects exactly the payloads that violate the
\* tool's schema, and the one error result of a rejected payload names
\* every violated field with every constraint it violates, and nothing else
C18_ValidationExactAndComplete ==
    (dPhase # "idle" /\ dName \in ToolNames) =>
        /\ ~ViolatesArgumentSchema(dName, dArgs) =>
                dError.cls # "ZodError" /\ dBackendRequests = 1
        /\ ViolatesArgumentSchema(dName, dArgs) =>
            /\ dPhase = "done"
            /\ dError.cls = "ZodError"
            /\ dResult.isError
            /\ callToolVariant = "later" => dResult.code = -32602
            /\ dResult.text = "Invalid arguments for tool " \o dName \o ": "
                                \o JoinIssues(dError.issues, "", ": ", ", ")
            /\ dArgs.obj =>
                \A f \in SchemaFields(dName) :
                    {dError.issues[i].message :
                        i \in {j \in 1 .. Len(dError.issues) : dError.issues[j].path = f}}
                      = ViolatedConstraints(FieldValue(dArgs, f), FieldRequired(f))
            /\ dArgs.obj =>
                \A i \in 1 .. Len(dError.issues) :
                    dError.issues[i].path \in SchemaFields(dName)

\* a category listing with three violated fields and four violated
\* constraints: all are in the one message
C18_ThreeFieldsReported ==
    /\ dPhase = "done"
    /\ dName = "yapi_list_interfaces_by_category"
    /\ dArgs.obj
    /\ dArgs.category_id = Absent
    /\ dArgs.page = [k |-> "str", n |-> 0]
    /\ dArgs.limit = [k |-> "float", n |-> -1]
    /\ dResult.isError
    /\ dResult.text = "Invalid arguments for tool yapi_list_interfaces_by_category: "
            \o "category_id: Required, page: Expected number, received string, "
            \o "limit: Expected integer, received float, "
            \o "limit: Number must be greater than 0"
    /\ dBackendRequests = 0

\* the backend's answer, as the claim sorts it: no 2xx status or no parseable
\* body; a business status other than zero; a body of the wrong shape
TransportFailed(b) ==
    b.fetch = "throws" \/ ~StatusOk(b.status) \/ b.ctype # "json" \/ ~b.json

BusinessFailed(b) == b.body.errcodeKey /\ b.body.errcode # 0

Malformed(b) == ~b.body.errcodeKey \/ b.body.data # "ok"

\* the error the backend client threw, by what it carries: no 2xx status or
\* the raw text of the body; a 2xx status, the parsed body and its non-zero
\* business status; a 2xx status and the report of the response schema
IsTransportFailure(e) ==
    /\ e.cls = "YapiError"
    /\ ~e.statusDef \/ ~StatusOk(e.status) \/ e.responseBody = "text"

IsBusinessFailure(e) ==
    /\ e.cls = "YapiError"
    /\ e.statusDef /\ StatusOk(e.status)
    /\ e.responseBody = "data"
    /\ e.errcodeDef /\ e.errcode # 0

IsValidationFailure(e) ==
    /\ e.cls = "YapiError"
    /\ e.statusDef /\ StatusOk(e.status)
    /\ e.responseBody = "zodErrors"

\* C19: the backend client sorts every failed call into exactly one class,
\* in a fixed order: a transport failure whenever the status is not 2xx or
\* the body does not parse, whatever business status the body carries;
\* otherwise a business failure whenever the business status is not zero,
\* whatever the shape of the data; a validation failure only when both
\* checks passed and the shape is wrong; and no failure otherwise
C19_FailureClassInFixedOrder ==
    (dPhase = "done" /\ dBackend # NoBehaviour /\ dBackend.fault = "none") =>
        /\ TransportFailed(dBackend) =>
            /\ IsTransportFailure(dError)
            /\ ~IsBusinessFailure(dError) /\ ~IsValidationFailure(dError)
        /\ (~TransportFailed(dBackend) /\ BusinessFailed(dBackend)) =>
            /\ IsBusinessFailure(dError)
            /\ dError.errcode = dBackend.body.errcode
            /\ ~IsTransportFailure(dError) /\ ~IsValidationFailure(dError)
        /\ (~TransportFailed(dBackend) /\ ~BusinessFailed(dBackend)
                /\ Malformed(dBackend)) =>
            /\ IsValidationFailure(dError)
            /\ ~IsTransportFailure(dError) /\ ~IsBusinessFailure(dError)
        /\ (~TransportFailed(dBackend) /\ ~BusinessFailed(dBackend)
                /\ ~Malformed(dBackend)) =>
            dError = NoError /\ ~dResult.isError

\* HTTP 200 with business status 40011 and data of the wrong shape: a
\* business failure, the shape is not looked at
C19_BusinessFailureWithMalformedData ==
    /\ dPhase = "done"
    /\ dBackend.fetch = "ok" /\ dBackend.status = 200 /\ dBackend.json
    /\ dBackend.body.errcodeKey /\ dBackend.body.errcode = 40011
    /\ dBackend.body.data = "wrongType"
    /\ dError.cls = "YapiError" /\ dError.errcode = 40011
    /\ dError.responseBody = "data"

\* how the catch block introduces the backend's business code in the text
CodeLabel == IF callToolVariant = "earlier" THEN " (Code: " ELSE " (YAPI Code: "

\* C20: when the backend answers with a 2xx status and a business status
\* other than zero, the invocation ends with an error result whose text
\* carries the backend's business message and its numeric code; no exception
\* leaves the handler and the request is not issued again
C20_BusinessFailureReported ==
    (/\ dPhase = "done"
     /\ dBackend.fetch = "ok" /\ StatusOk(dBackend.status)
     /\ dBackend.ctype = "json" /\ dBackend.json
     /\ dBackend.body.errcodeKey /\ dBackend.body.errcode # 0) =>
        /\ dResult.isError
        /\ dResult.text =
                "YAPI API Error for tool " \o dName \o ": "
                    \o (IF dBackend.body.errmsg # "" THEN dBackend.body.errmsg
                        ELSE "YAPI operation failed with code "
                                \o ToString(dBackend.body.errcode))
                    \o CodeLabel \o ToString(dBackend.body.errcode) \o ")"
                    \o " (HTTP Status: " \o ToString(dBackend.status) \o ")"
        /\ ~dEscaped
        /\ dBackendRequests = 1

\* HTTP 200 with {errcode: 40011, errmsg: "token invalid"}
C20_TokenInvalidReported ==
    /\ dPhase = "done"
    /\ dName = "yapi_get_project_info"
    /\ dBackend.status = 200 /\ dBackend.body.errcode = 40011
    /\ dBackend.body.errmsg = "token invalid"
    /\ dResult.isError
    /\ dResult.code = -32001
    /\ dResult.text = "YAPI API Error for tool yapi_get_project_info: "
                        \o "token invalid (YAPI Code: 40011) (HTTP Status: 200)"

\* C21: when the backend answers with a status that is not 2xx, with a JSON
\* body, an unparseable one or none, the invocation ends with an error
\* result whose text carries that HTTP status, and no exception leaves the
\* handler
C21_HttpFailureReported ==
    (dPhase = "done" /\ dBackend.fetch = "ok" /\ ~StatusOk(dBackend.status)) =>
        /\ dResult.isError
        /\ dError.cls = "YapiError"
        /\ dError.statusDef /\ dError.status = dBackend.status
        /\ dResult.text =
                "YAPI API Error for tool " \o dName \o ": " \o dError.message
                    \o (IF dError.errcodeDef /\ dError.errcode # 0
                        THEN CodeLabel \o ToString(dError.errcode) \o ")" ELSE "")
                    \o " (HTTP Status: " \o ToString(dBackend.status) \o ")"
        /\ ~dEscaped

\* HTTP 500 with a body that is not JSON
C21_Http500NonJson ==
    /\ dPhase = "done"
    /\ dName = "yapi_get_project_info"
    /\ dBackend.status = 500 /\ dBackend.ctype = "text"
    /\ dResult.isError
    /\ dResult.text = "YAPI API Error for tool yapi_get_project_info: "
            \o "YAPI request failed with non-JSON response. Status: 500. Body: text"
            \o " (HTTP Status: 500)"

\* the members of the payload that do not satisfy the operation's response
\* schema, in the order of their declaration, each with what is wrong with it
FailingFields(name, shape) ==
    LET first == CASE name = "yapi_get_interface_details" -> "data.title"
                   [] name = "yapi_list_interfaces_by_category" -> "data.count"
                   [] name = "yapi_get_project_interface_menu" -> "data.0.name"
                   [] OTHER -> "data.name"
        second == CASE name = "yapi_get_interface_details" -> "data.path"
                    [] name = "yapi_list_interfaces_by_category" -> "data.total"
                    [] name = "yapi_get_project_interface_menu" -> "data.0.uid"
                    [] OTHER -> "data.uid"
        mistyped(f) == IF f \in {"data.count", "data.total", "data.0.uid", "data.uid"}
                       THEN "Expected number, received string"
                       ELSE "Expected string, received number"
    IN  CASE shape = "absent" -> <<<<"data", "Required">>>>
          [] shape = "missingField" -> <<<<first, "Required">>>>
          [] shape = "wrongType" -> <<<<first, mistyped(first)>>>>
          [] shape = "twoFields" ->
                <<<<first, "Required">>, <<second, mistyped(second)>>>>
          [] OTHER -> <<>>

RECURSIVE PathReport(_)
PathReport(fields) ==
    IF fields = <<>> THEN ""
    ELSE "Path: " \o Head(fields)[1] \o ", Message: " \o Head(fields)[2]
            \o (IF Len(fields) = 1 THEN "" ELSE "; " \o PathReport(Tail(fields)))

\* C22: when the backend answers 2xx with business status 0 and a payload
\* that lacks a required member or has one of the wrong type, the invocation
\* ends with an error result that names the path of every failing member and
\* carries no business code, which tells it from a business failure
C22_MalformedPayloadReported ==
    (/\ dPhase = "done"
     /\ dBackend.fetch = "ok" /\ StatusOk(dBackend.status)
     /\ dBackend.ctype = "json" /\ dBackend.json
     /\ dBackend.body.errcodeKey /\ dBackend.body.errcode = 0
     /\ dBackend.body.data # "ok") =>
        /\ dResult.isError
        /\ dError.cls = "YapiError"
        /\ ~dError.errcodeDef
        /\ dResult.text =
                "YAPI API Error for tool " \o dName
                    \o ": YAPI response validation failed for "
                    \o ParsedArgs(dName, dArgs).api \o ". Details: "
                    \o PathReport(FailingFields(dName, dBackend.body.data))
                    \o " (HTTP Status: " \o ToString(dBackend.status) \o ")"
        /\ ~dEscaped

\* a details payload without its title and with a numeric path
C22_TwoFailingFieldsNamed ==
    /\ dPhase = "done"
    /\ dName = "yapi_get_interface_details"
    /\ dBackend.status = 200 /\ dBackend.body.errcodeKey /\ dBackend.body.errcode = 0
    /\ dBackend.body.data = "twoFields"
    /\ dResult.isError
    /\ dResult.text = "YAPI API Error for tool yapi_get_interface_details: "
            \o "YAPI response validation failed for /interface/get. Details: "
            \o "Path: data.title, Message: Required; "
            \o "Path: data.path, Message: Expected string, received number"
            \o " (HTTP Status: 200)"

\* C23: a failure inside dispatch that is neither an argument-validation
\* error nor a failure of the backend client is reported with a fixed text
\* that depends on the tool name only, not on the failure's own message; two
\* invocations that differ only in that message return the same result
C23_InternalFailureReportedGenerically ==
    (dPhase = "done" /\ dBackend.fault # "none") =>
        /\ dResult.isError
        /\ dResult.text \in
                {"Internal server error executing tool " \o dName
                    \o ". See server logs for details.",
                 "An unknown error occurred while processing tool " \o dName \o "."}

\* a listing payload with category_id only, and the one that spells out the
\* first page and the limit of ten
OnlyCategory(c) ==
    [NoArgs EXCEPT !.obj = TRUE, !.category_id = [k |-> "int", n |-> c]]
FirstPageOfTen(c) ==
    [NoArgs EXCEPT !.obj = TRUE, !.category_id = [k |-> "int", n |-> c],
                   !.page = [k |-> "int", n |-> 1], !.limit = [k |-> "int", n |-> 10]]

\* C24: for every valid category_id and every state of the backend, the
\* listing invoked with category_id only issues the same backend request and
\* returns the same result as the listing invoked with category_id, page 1
\* and limit 10
C24_DefaultsEqualFirstPageOfTen ==
    (/\ dPhase = "done" /\ dPrev # NoPrev
     /\ dName = "yapi_list_interfaces_by_category" /\ dPrev.name = dName
     /\ dPrev.backend = dBackend
     /\ \E c \in 1 .. MaxArgInt :
            \/ dPrev.args = OnlyCategory(c) /\ dArgs = FirstPageOfTen(c)
            \/ dPrev.args = FirstPageOfTen(c) /\ dArgs = OnlyCategory(c)) =>
        /\ dRequest # "" /\ dPrev.request = dRequest
        /\ dPrev.result = dResult
        /\ dPrev.escaped = dEscaped

\* category 2 listed with category_id only, then with page 1 and limit 10,
\* the backend answering both
C24_CategoryTwoListedBothWays ==
    /\ dPhase = "done"
    /\ dName = "yapi_list_interfaces_by_category"
    /\ dPrev.name = dName
    /\ dPrev.args = OnlyCategory(2) /\ dArgs = FirstPageOfTen(2)
    /\ dPrev.backend = dBackend
    /\ ~dResult.isError
    /\ dRequest = "http://yapi.example.com/api/interface/list_cat"
                    \o "?token=token-1&catid=2&page=1&limit=10"

AllButListing ==
    <<dvars, svars, transportMode, callToolVariant, env, procPhase, exitCode,
      startupError, yapiService, mcpServerCreated, httpListening, stdioConnected,
      hvars>>

\* C25: in every state of the running server a tools/list request can be
\* answered; every answer holds the same four tools, their names pairwise
\* distinct, each with a description that is not empty, an argument schema
\* and the read-only flag set; answering changes nothing else
C25_ListingIsFixedAndPure ==
    /\ [](procPhase = "running" => ENABLED ListTools)
    /\ [](lastListing # <<>> =>
            /\ Len(lastListing) = 4
            /\ {lastListing[i].name : i \in 1 .. 4} =
                    {"yapi_get_interface_details", "yapi_list_interfaces_by_category",
                     "yapi_get_project_interface_menu", "yapi_get_project_info"}
            /\ \A i, j \in 1 .. 4 : lastListing[i].name = lastListing[j].name => i = j
            /\ \A i \in 1 .. 4 :
                    /\ lastListing[i].description > 0
                    /\ lastListing[i].inputSchema.type = "object"
                    /\ lastListing[i].annotations.readOnlyHint)
    /\ [][/\ lastListing # <<>> => lastListing' = lastListing
          /\ lastListing' # lastListing => UNCHANGED AllButListing]_vars

\* the tools listed while a session is connected and another has been closed
C25_ListedWithSessionsOpenAndClosed ==
    /\ lastListing # <<>>
    /\ \E t, u \in Transports : tState[t] = "connected" /\ tState[u] = "closed"

\* C27: a tool invocation, whether it ends with a result or with an error
\* result, leaves the routing table, the lifecycle state of every session,
\* the tool definitions and the configuration of the backend client (base
\* URL, credential) as they were
C27_ToolCallLeavesSessionsAndConfiguration ==
    [][(calls' # calls \/ delivered' # delivered) =>
            /\ activeTransports' = activeTransports
            /\ tState' = tState
            /\ tSid' = tSid
            /\ yapiService' = yapiService
            /\ lastListing' = lastListing]_vars

\* the result of a tool call has been written to the stream of a session
\* that is still connected and in the routing table, no call is left waiting
C27_AnsweredSessionStillRouted ==
    /\ delivered.on \in Transports
    /\ tState[delivered.on] = "connected"
    /\ Lookup(activeTransports, tSid[delivered.on]) = delivered.on
    /\ calls = {}
    /\ yapiService.token = "token-1"

\* the text of the payload the backend serves for an invocation, when the
\* payload carries neither res_body nor req_body_other
PayloadText(name, args) ==
    CASE name = "yapi_get_interface_details" ->
            "{\n  \"_id\": " \o ToString(args.interface_id.n) \o "\n}"
      [] name = "yapi_list_interfaces_by_category" ->
            LET page == IF args.page.k = "absent" THEN 1 ELSE args.page.n
                limit == IF args.limit.k = "absent" THEN 10 ELSE args.limit.n
            IN  "{\n  \"count\": " \o ToString(limit)
                    \o ",\n  \"total\": " \o ToString(limit)
                    \o ",\n  \"list\": [\n    {\n      \"_id\": " \o ToString(page)
                    \o ",\n      \"catid\": " \o ToString(args.category_id.n)
                    \o "\n    }\n  ]\n}"
      [] name = "yapi_get_project_interface_menu" -> "[]"
      [] OTHER -> "{\n  \"_id\": 1\n}"

\* C28: when the backend answers 2xx with business status 0 and a payload of
\* the expected shape, the invocation ends with a result that is no error
\* and whose text is the serialization of the payload alone, without the
\* envelope; the details of interface n carry _id n
C28_SuccessReturnsPayloadOnly ==
    (/\ dPhase = "done"
     /\ dBackend.fetch = "ok" /\ StatusOk(dBackend.status)
     /\ dBackend.ctype = "json" /\ dBackend.json
     /\ dBackend.body.errcodeKey /\ dBackend.body.errcode = 0
     /\ dBackend.body.data = "ok"
     /\ dBackend.fault = "none"
     /\ dBackend.res_body = Undefined /\ dBackend.req_body_other = Undefined) =>
        /\ ~dResult.isError
        /\ dError = NoError
        /\ dResult.text = PayloadText(dName, dArgs)
        /\ ~dEscaped

\* the details of interface 2; the envelope's errmsg is not in the text
C28_DetailsOfInterfaceTwo ==
    /\ dPhase = "done"
    /\ dName = "yapi_get_interface_details"
    /\ dArgs.interface_id = [k |-> "int", n |-> 2]
    /\ dBackend.status = 200 /\ dBackend.body.errmsg = "token invalid"
    /\ ~dResult.isError
    /\ dResult.text = "{\n  \"_id\": 2\n}"

\* a string that looks like a JSON object or array once trimmed, and parses
Structured(v) ==
    /\ v.k = "string"
    /\ LET t == Trim(v.s)
       IN  /\ t # <<>>
           /\ <<t[1], t[Len(t)]>> \in {<<"{", "}">>, <<"[", "]">>}
           /\ IsJsonValue(Tokens(t))

\* the member of the returned payload, as the result's text shows it
MemberShown(key, v) ==
    IF Structured(v)
    THEN ",\n  \"" \o key \o "\": " \o StringifyTokens(Tokens(v.s), 1)
    ELSE CASE v.k = "undefined" -> ""
           [] v.k = "null" -> ",\n  \"" \o key \o "\": null"
           [] OTHER -> ",\n  \"" \o key \o "\": \"" \o Text(v.s) \o "\""

\* C29: in a successful details call res_body and req_body_other are
\* replaced by structured data only when they are strings that look like a
\* JSON object or array and parse; absent, null, not JSON-looking, or
\* JSON-looking but unparseable, they are returned as they came, and the call
\* succeeds all the same
C29_BodiesParsedOnlyWhenJson ==
    (/\ dPhase = "done"
     /\ dName = "yapi_get_interface_details"
     /\ dBackend.fetch = "ok" /\ StatusOk(dBackend.status)
     /\ dBackend.ctype = "json" /\ dBackend.json
     /\ dBackend.body.errcodeKey /\ dBackend.body.errcode = 0
     /\ dBackend.body.data = "ok"
     /\ dBackend.fault = "none") =>
        /\ ~dResult.isError
        /\ ~dEscaped
        /\ dResult.text =
                "{\n  \"_id\": " \o ToString(dArgs.interface_id.n)
                    \o MemberShown("req_body_other", dBackend.req_body_other)
                    \o MemberShown("res_body", dBackend.res_body)
                    \o "\n}"

\* req_body_other "{}" is parsed, res_body "{x}" looks like JSON but does not
\* parse and stays the string it was
C29_ParsedBesideUnparseable ==
    /\ dPhase = "done"
    /\ dName = "yapi_get_interface_details"
    /\ dArgs.interface_id = [k |-> "int", n |-> 1]
    /\ dBackend.req_body_other = [k |-> "string", s |-> <<"{", "}">>]
    /\ dBackend.res_body = [k |-> "string", s |-> <<"{", "x", "}">>]
    /\ ~dResult.isError
    /\ dResult.text =
            "{\n  \"_id\": 1,\n  \"req_body_other\": {},\n  \"res_body\": \"{x}\"\n}"

\* the environment lacks the base URL or the credential, or holds them empty,
\* or holds a base URL that is no URL
BadConfiguration ==
    \/ env.baseUrl \in {NotSet, ""}
    \/ env.token \in {NotSet, ""}
    \/ env.baseUrl = "yapi.example.com"

\* C30: when the base URL or the credential is missing or empty, or the base
\* URL is not a URL, the construction of the backend client raises a
\* ConfigurationError, which is no YapiError, the process exits with a code
\* that is not zero, and no session is ever served: no dispatcher is created,
\* no stdio transport connected, no HTTP listener started
C30_BadConfigurationStopsTheProcess ==
    BadConfiguration =>
        /\ ~mcpServerCreated /\ ~stdioConnected /\ ~httpListening
        /\ yapiService = NoService
        /\ activeTransports = [s \in {} |-> 0]
        /\ \A t \in Transports : tState[t] = "none"
        /\ procPhase # "running"
        /\ procPhase = "exited" =>
                /\ exitCode # 0
                /\ startupError.cls = "ConfigurationError"
                /\ startupError.cls # "YapiError"

\* the process has exited with 1 over an empty credential
C30_ExitedOverEmptyToken ==
    /\ env.baseUrl = "http://yapi.example.com/v1/" /\ env.token = ""
    /\ procPhase = "exited" /\ exitCode = 1
    /\ startupError.cls = "ConfigurationError"
    /\ startupError.message =
            "YAPI_PROJECT_TOKEN environment variable is not configured."

\* the process.exit calls of shutdown
ShutdownExits == {"complete", "timeout", "close error", "shutdown error"}

\* C31: once a signal has started the shutdown the process always exits in
\* the end, whatever sessions stay in the routing table and whatever
\* connections stay open: with status 0 only when the engine was closed and
\* the HTTP server (if there is one) closed with no connection left and no
\* close reported an error, and with status 1 when the timer fired while a
\* connection was still open or a close failed
C31_ShutdownIsBounded ==
    /\ (engineCloses > 0) ~> (procPhase = "exited")
    /\ [](procPhase = "exited" /\ engineCloses > 0 =>
            /\ exitCause \in ShutdownExits
            /\ exitCode = IF exitCause = "complete" THEN 0 ELSE 1
            /\ exitCause = "complete" =>
                    /\ httpConnections = 0
                    /\ httpListening => shutdowns = 1 /\ httpCloses = 1
            /\ exitCause = "timeout" => httpConnections > 0 /\ shutdowns > 0
            /\ exitCause = "close error" => httpCloses > 1)

\* the process was forced to exit with 1 by the timer, a session still in
\* the routing table and a connection still open
C31_ForcedExitWithSessionOpen ==
    /\ procPhase = "exited" /\ exitCode = 1 /\ exitCause = "timeout"
    /\ DOMAIN activeTransports # {}
    /\ \E t \in Transports : tState[t] = "connected"
    /\ httpConnections > 0

\* C32: the run of shutdown that closes the protocol engine and then calls
\* httpServer.close() leaves no session connected and the routing table
\* empty
C32_ShutdownClosesEverySession ==
    [][(engineCloses' > engineCloses /\ httpCloses' > httpCloses) =>
            /\ DOMAIN activeTransports' = {}
            /\ \A t \in Transports : tState'[t] # "connected"]_vars

\* C37: the protocol engine and the HTTP server are closed at most once in
\* the life of a process, and a process whose HTTP server has closed, its
\* connections gone, exits with the status 0 of the first shutdown
C37_ShutdownRunsAtMostOnce ==
    /\ engineCloses <= 1
    /\ httpCloses <= 1
    /\ (procPhase = "exited" /\ exitCause \in {"complete", "close error"})
            => exitCode = 0

\* the five outcomes of a request on /mcp
Outcomes == {"existing session", "new session", "400", "404", "500"}

\* the outcome an answer is: the transport of the session named answered,
\* the transport created for the request answered, or the binding did
OutcomesOf(req, res) ==
    {o \in Outcomes :
        CASE o = "existing session" -> res.by = "transport" /\ req.known
          [] o = "new session" -> res.by = "transport" /\ ~req.known
          [] o = "400" -> res.by = "binding" /\ res.status = 400
          [] o = "404" -> res.by = "binding" /\ res.status = 404
          [] OTHER -> res.by = "binding" /\ res.status = 500}

\* the steps of the handler a request may take
HandlerSteps(r) ==
    {k \in {"reject", "inherited", "initialize", "delete", "other"} :
        CASE k = "reject" -> ENABLED Reject(r.method, r.sid, r.body)
          [] k = "inherited" -> ENABLED ReuseInherited(r.method, r.sid, r.body)
          [] k = "initialize" ->
                /\ r.method = "POST" /\ r.sid = NoSid /\ r.body = "initialize"
                /\ (\E t \in Transports : tState[t] = "none") =>
                        ENABLED (\E oc \in InitOutcomes : Initialize(oc))
          [] k = "delete" -> r.method = "DELETE" /\ ENABLED RoutedDelete(r.sid)
          [] OTHER -> ENABLED (\E oc \in RouteOutcomes :
                                    RoutedOther(r.method, r.sid, r.body, oc))}

\* C33: while the streaming binding serves, every request on /mcp takes
\* exactly one branch of the handler, and the request handled last got
\* exactly one of the five outcomes, the one its case calls for, its
\* response written exactly once and ended: a session id that is a key of the
\* table hands the request to that session's transport (500 if that throws),
\* one that is no key gives 404 (500 for a name every object inherits), an
\* initialize POST without a session id is handled by a transport created for
\* it (500 if that throws), any other request without a session id gives 400
C33_ExactlyOneOutcome ==
    /\ Serving("streamable-http") =>
            \A r \in HttpRequests : Cardinality(HandlerSteps(r)) = 1
    /\ (transportMode = "streamable-http" /\ lastReq # NoReq) =>
        LET outcomes == OutcomesOf(lastReq, lastRes)
            present == lastReq.sid # NoSid
            initialize == /\ lastReq.method = "POST"
                          /\ lastReq.body = "initialize"
        IN  /\ Cardinality(outcomes) = 1
            /\ lastRes.writes = 1
            /\ lastRes.endedBy # ""
            /\ (present /\ lastReq.known) =>
                    /\ outcomes \subseteq {"existing session", "500"}
                    /\ lastRes.transport \in Transports
                    /\ tSid[lastRes.transport] = lastReq.sid
            /\ (present /\ ~lastReq.known) =>
                    outcomes = IF lastReq.sid \in ObjectPrototypeKeys
                               THEN {"500"} ELSE {"404"}
            /\ (~present /\ initialize) =>
                    /\ outcomes \subseteq {"new session", "500"}
                    /\ "new session" \in outcomes =>
                            /\ lastRes.transport \in Transports
                            /\ tState[lastRes.transport] # "none"
            /\ (~present /\ ~initialize) => outcomes = {"400"}

\* a batch POSTed without a session id was answered 400, two sessions in the
\* routing table
C33_BatchWithoutSessionIdRefused ==
    /\ lastReq.method = "POST" /\ lastReq.sid = NoSid /\ lastReq.body = "batch"
    /\ lastRes.by = "binding" /\ lastRes.status = 400
    /\ Cardinality(DOMAIN activeTransports) = 2

\* the outcomes of the new-session branch in which an exception reaches the
\* catch block, and those of them in which no head was written before
ThrowingInitOutcomes ==
    {"connectThrows", "throwsBefore", "throwsAfter", "throwsAfterHeaders"}

\* a step of the handler in which an exception reaches the catch block
\* before the head of a response was written
ThrowsUnanswered(r) ==
    \/ ReuseInherited(r.method, r.sid, r.body)
    \/ RoutedOther(r.method, r.sid, r.body, "throws")
    \/ /\ IsInitializePost(r)
       /\ \E oc \in ThrowingInitOutcomes \ {"throwsAfterHeaders"} : Initialize(oc)

\* a step of the handler in which an exception reaches the catch block
\* after the transport wrote the head of its answer
ThrowsAnswered(r) ==
    \/ RoutedOther(r.method, r.sid, r.body, "throwsAfterHeaders")
    \/ IsInitializePost(r) /\ Initialize("throwsAfterHeaders")

\* the sessions of the routing table other than the one the request named
\* are left as they were
OtherSessionsKept(r) ==
    \A s \in DOMAIN activeTransports \ {r.sid} :
        /\ s \in DOMAIN activeTransports'
        /\ activeTransports'[s] = activeTransports[s]
        /\ tState'[activeTransports[s]] = tState[activeTransports[s]]

C34_FailedInitializationLeavesNoEntry ==
    [][((\E oc \in ThrowingInitOutcomes : Initialize(oc))
            \/ SseConnect("connectThrows")) =>
        \A t \in Transports :
            Created(t) =>
                \A s \in DOMAIN activeTransports' : activeTransports'[s] # t]_vars

\* C36: every key of the routing table is the session id of the transport
\* stored under it, and no transport is stored under two keys
C36_KeysAreTheTransportsSessionIds ==
    /\ \A s \in DOMAIN activeTransports :
            /\ activeTransports[s] \in Transports
            /\ tSid[activeTransports[s]] = s
    /\ \A s1, s2 \in DOMAIN activeTransports :
            activeTransports[s1] = activeTransports[s2] => s1 = s2

\* the SSE binding holds two sessions, each under its own id
C36_TwoSseSessionsUnderTheirIds ==
    /\ transportMode = "sse"
    /\ DOMAIN activeTransports = {"uuid-1", "uuid-2"}
    /\ activeTransports["uuid-1"] = 1 /\ activeTransports["uuid-2"] = 2
    /\ tSid[1] = "uuid-1" /\ tSid[2] = "uuid-2"

\* C38: in the SSE binding a POST to /messages without sessionId is answered
\* 400, one whose sessionId is no key of the routing table 404, both by the
\* binding, and only a POST whose sessionId is a key of the table is handed
\* to a transport; a POST that is refused leaves the routing table as it was
C38_OnlyRoutedSessionsReceive ==
    /\ (transportMode = "sse" /\ lastReq.method = "POST") =>
            /\ lastReq.sid = NoSid =>
                    lastRes.by = "binding" /\ lastRes.status = 400
            /\ (lastReq.sid # NoSid /\ ~lastReq.known) =>
                    /\ lastRes.by = "binding" /\ lastRes.status = 404
                    /\ lastRes.transport = 0
            /\ lastRes.by = "transport" => lastReq.known

====
